---- MODULE Spec2Model ----
(***************************************************************************)
(* The pipeline runner of autoclip_mvp: the FastAPI backend's run control  *)
(* (start, retry, delete), its background worker and the six-stage         *)
(* pipeline the worker drives.                                             *)
(*                                                                         *)
(* Scheduling.  Every handler and the worker are coroutines of one asyncio *)
(* event loop.  A coroutine runs without interruption up to an await that  *)
(* suspends.  start_processing and retry_project_processing await only the *)
(* uncontended processing_lock, so each is one atomic step.  The worker is *)
(* added as a Starlette background task: it starts after the response has  *)
(* been sent, so other requests may be served between the acceptance of a  *)
(* request and the first statement of its worker (the task is "pending"    *)
(* in between).  process_project_background contains no await, so from its *)
(* first statement to the release of the slot the worker holds the event   *)
(* loop: the worker is modelled in several steps (begin, preflight, one    *)
(* step per stage, finish, release) but no handler runs between them.      *)
(* Only a restart of the server process may cut a running worker short.    *)
(***************************************************************************)
EXTENDS Integers, Sequences, FiniteSets, TLC

VARIABLES
    max_concurrent_processing,  \* ProjectManager.max_concurrent_processing
    current_processing_count,   \* ProjectManager.current_processing_count
    projects,                   \* ProjectManager.projects (and data/projects.json)
    processing_status,          \* module-level dict processing_status
    tasks,                      \* background tasks accepted and not yet started
    run,                        \* the worker that holds the event loop, if any
    disk,                       \* uploads/<project_id>/ : whether the project tree exists
                                \* (what a run writes into it is recorded in run.written)
    lastFailed,                 \* history: the stage that was being attempted when the
                                \* project's latest run failed (0: it has not failed)
    last,                       \* history: the step just taken and its HTTP outcome
    \* -- the tree of one project, file by file (second machine, below)
    tree,                       \* uploads/<id>/output/metadata: the stage artifacts, the
                                \* markers stepN_result.json, project_metadata.current_step
    record,                     \* the project's status in data/projects.json
    snap,                       \* the project's entry of processing_status
    job,                        \* the pipeline run working on the tree, if any
    lastExec,                   \* history: the stages whose latest execution finished
                                \* successfully
    seen,                       \* history: what the latest read of a file returned
    \* -- the functions of the pipeline stages (third machine, below)
    call,                       \* the latest application of a stage function: its name,
                                \* its input and what it returned
    \* -- one CircuitBreaker of the error handler (fourth machine, below)
    breaker,                    \* the CircuitBreaker object: its parameters and fields
    clock,                      \* time.time(), in whole seconds
    outcome                     \* the latest CircuitBreaker.call: the function passed, the
                                \* state it found, whether the function ran, what the
                                \* caller got

\* the variables of the run-control machine
controlVars == <<max_concurrent_processing, current_processing_count, projects,
                 processing_status, tasks, run, disk, lastFailed, last>>

\* the variables of the project-tree machine
treeVars == <<tree, record, snap, job, lastExec, seen>>

\* the variables of the stage-function machine
stageVars == <<call>>

\* the variables of the circuit-breaker machine
breakerVars == <<breaker, clock, outcome>>

\* what a step of the run-control machine leaves alone
beyondControl == <<treeVars, stageVars, breakerVars>>

\* what a step of the project-tree machine leaves alone
beyondTree == <<controlVars, stageVars, breakerVars>>

\* what a step of the stage-function machine leaves alone
beyondStages == <<controlVars, treeVars, breakerVars>>

\* what a step of the circuit-breaker machine leaves alone
beyondBreaker == <<controlVars, treeVars, stageVars>>

vars == <<controlVars, treeVars, stageVars, breakerVars>>

----------------------------------------------------------------------------
\* Bounds of the model.

\* the largest value of max_concurrent_processing explored
MaxCap == 2

\* the project ids that uploads create (uuid4 values in the program)
Projects == {1, 2}

\* A cap on the pending-task list, above every value of the concurrency
\* limit, so that the list stays finite even if the limit were not enforced.
MaxTasks == MaxCap + 1

\* the values of max_concurrent_processing explored
Limits == 1..MaxCap

----------------------------------------------------------------------------
\* Program constants.

\* total_steps of the progress snapshot; range(start_step, 7) of run_from_step
TOTAL_STEPS == 6

Stages == 1..TOTAL_STEPS
\* the stages that call the LLM gateway (S6 only drives FFmpeg)
LLMStages == 1..5

HTTP_OK == 200
HTTP_BAD_REQUEST == 400
HTTP_NOT_FOUND == 404
HTTP_TOO_MANY == 429

----------------------------------------------------------------------------
\* Values.

NoProject == [life |-> "none", status |-> "none", error_message |-> FALSE,
              current_step |-> 0]

NoStatus == [present |-> FALSE, status |-> "none", current_step |-> 0]

NoDisk == [exists |-> FALSE]

NoRun == [pc |-> "idle", pid |-> 0, start_step |-> 0,
          step |-> 0, success |-> FALSE, executed |-> {}, written |-> {},
          marked |-> {}, order |-> <<>>,
          llmFailedAt |-> 0, ioFailedAt |-> 0, raisedAt |-> 0]

Step(op, pid, code) == [op |-> op, pid |-> pid, code |-> code]
\* a step that answers no run-control request
Other == Step("other", 0, 0)

\* Project(...) as create_project builds it: status "uploading", current_step None
NewProject == [life |-> "live", status |-> "uploading", error_message |-> FALSE,
               current_step |-> 0]

\* ProjectManager.update_project: a no-op for an id that is not in the index
update_project(ps, pid, status, err) ==
    IF ps[pid].life = "live"
    THEN [ps EXCEPT ![pid].status = status, ![pid].error_message = err]
    ELSE ps

Busy == current_processing_count >= max_concurrent_processing

LoopFree == run.pc = "idle"

\* The pending background tasks: tasks[p][n] counts the accepted requests
\* for project p whose worker, to start at stage n, has not begun.  The event
\* loop may start them in any order.
NoTasks == [p \in Projects |-> [n \in Stages |-> 0]]

RECURSIVE SumUpTo(_, _)
SumUpTo(f, n) == IF n = 0 THEN 0 ELSE f[n] + SumUpTo(f, n - 1)

PendingFor(p) == SumUpTo(tasks[p], TOTAL_STEPS)

RECURSIVE PendingIn(_)
PendingIn(ps) ==
    IF ps = {} THEN 0
    ELSE LET p == CHOOSE q \in ps : TRUE IN PendingFor(p) + PendingIn(ps \ {p})

Pending == PendingIn(Projects)

Spawn(p, n) == [tasks EXCEPT ![p][n] = @ + 1]

----------------------------------------------------------------------------
\* The project tree before any run: no artifact, no marker, current_step 0
\* in project_metadata.json; a file is absent ("none"), complete ("done"),
\* or opened for writing and not yet complete ("torn").
FileStates == {"none", "torn", "done"}
NoTree == [artifact |-> [n \in Stages |-> "none"],
           marker |-> [n \in Stages |-> "none"],
           meta_step |-> 0]
NoJob == [pc |-> "idle", start_step |-> 0, step |-> 0]

TreeInit ==
    /\ tree = NoTree
    /\ record = "uploading"
    /\ snap = NoStatus
    /\ job = NoJob
    /\ lastExec = {}
    /\ seen = "nothing"

\* No stage function has been applied yet.
NoCall == [fn |-> "none", arg |-> <<>>, out |-> <<>>]

\* no CircuitBreaker has been constructed yet
NoBreaker ==
    [failure_threshold |-> 0, recovery_timeout |-> 0, expected_exception |-> "none",
     failure_count |-> 0, last_failure_time |-> 0, state |-> "none"]

\* no CircuitBreaker.call is being reported
NoOutcome ==
    [func |-> "none", found |-> "none", executed |-> FALSE, raised |-> "none",
     result |-> "none"]

Init ==
    /\ TreeInit
    /\ call = NoCall
    /\ breaker = NoBreaker
    /\ clock = 1
    /\ outcome = NoOutcome
    /\ max_concurrent_processing \in Limits
    /\ current_processing_count = 0
    /\ projects = [p \in Projects |-> NoProject]
    /\ processing_status = [p \in Projects |-> NoStatus]
    /\ tasks = NoTasks
    /\ run = NoRun
    /\ disk = [p \in Projects |-> NoDisk]
    /\ lastFailed = [p \in Projects |-> 0]
    /\ last = Other

----------------------------------------------------------------------------
\* POST /api/upload: a fresh uuid, the inputs on disk, the project record.
\* (Ids are taken in order: which uuid comes first makes no difference.)
upload_files(p) ==
    /\ LoopFree
    /\ projects[p].life = "none"
    /\ \A q \in Projects : q < p => projects[q].life # "none"
    /\ disk' = [disk EXCEPT ![p] = [NoDisk EXCEPT !.exists = TRUE]]
    /\ projects' = [projects EXCEPT ![p] = NewProject]
    /\ last' = Other
    /\ UNCHANGED beyondControl
    /\ UNCHANGED <<max_concurrent_processing, current_processing_count,
                   processing_status, tasks, run, lastFailed>>

----------------------------------------------------------------------------
\* The decisions of the run-control handlers.

\* start_processing: project.status != "uploading" is refused (400)
StartAllowed(status) == status = "uploading"

\* variant: a retry that would also take a completed project
RetryAllowedAny(status) == status \in {"error", "completed"}

\* retry_project_processing: project.status != "error" is refused (400)
RetryAllowed(status) == status = "error"

\* variant: handlers that never find the cap reached
CapReachedNever(count, limit) == FALSE

\* the test made under processing_lock by both handlers
CapReached(count, limit) == count >= limit

\* retry_project_processing: the stage to restart from.  The snapshot's
\* current_step if the project has a snapshot, else Project.current_step if
\* it is set, else 1.
failed_step(snapshot, project) ==
    IF snapshot.present THEN snapshot.current_step
    ELSE IF project.current_step # 0 THEN project.current_step
    ELSE 1

\* POST /api/projects/{project_id}/process
start_processing(p) ==
    /\ LoopFree
    /\ IF projects[p].life # "live"
       THEN /\ last' = Step("start", p, HTTP_NOT_FOUND)
            /\ UNCHANGED <<current_processing_count, tasks>>
       ELSE IF ~StartAllowed(projects[p].status)
       THEN /\ last' = Step("start", p, HTTP_BAD_REQUEST)
            /\ UNCHANGED <<current_processing_count, tasks>>
       ELSE IF CapReached(current_processing_count, max_concurrent_processing)
       THEN /\ last' = Step("start", p, HTTP_TOO_MANY)
            /\ UNCHANGED <<current_processing_count, tasks>>
       ELSE /\ Pending < MaxTasks
            /\ current_processing_count' = current_processing_count + 1
            /\ tasks' = Spawn(p, 1)
            /\ last' = Step("start", p, HTTP_OK)
    /\ UNCHANGED beyondControl
    /\ UNCHANGED <<max_concurrent_processing, projects, processing_status, run,
                   disk, lastFailed>>

\* POST /api/projects/{project_id}/retry
retry_project_processing(p) ==
    /\ LoopFree
    /\ IF projects[p].life # "live"
       THEN /\ last' = Step("retry", p, HTTP_NOT_FOUND)
            /\ UNCHANGED <<current_processing_count, tasks, projects,
                           processing_status, lastFailed>>
       ELSE IF ~RetryAllowed(projects[p].status)
       THEN /\ last' = Step("retry", p, HTTP_BAD_REQUEST)
            /\ UNCHANGED <<current_processing_count, tasks, projects,
                           processing_status, lastFailed>>
       ELSE LET failed == failed_step(processing_status[p], projects[p]) IN
            \* the error is cleared and the snapshot dropped before the cap is tested
            /\ projects' = update_project(projects, p, "uploading", FALSE)
            /\ processing_status' = [processing_status EXCEPT ![p] = NoStatus]
            /\ IF CapReached(current_processing_count, max_concurrent_processing)
               THEN /\ last' = Step("retry", p, HTTP_TOO_MANY)
                    /\ lastFailed' = [lastFailed EXCEPT ![p] = 0]
                    /\ UNCHANGED <<current_processing_count, tasks>>
               ELSE /\ Pending < MaxTasks
                    /\ current_processing_count' = current_processing_count + 1
                    /\ tasks' = Spawn(p, failed)
                    /\ last' = Step("retry", p, HTTP_OK)
                    /\ UNCHANGED lastFailed
    /\ UNCHANGED beyondControl
    /\ UNCHANGED <<max_concurrent_processing, run, disk>>

\* DELETE /api/projects/{project_id} -> ProjectManager.delete_project: the
\* project tree is removed and the record dropped.  The snapshot it deletes
\* is an entry of ProjectManager.processing_status, a dict nothing writes;
\* the module-level processing_status the worker writes is left as it is.
delete_project(p) ==
    /\ LoopFree
    /\ IF projects[p].life # "live"
       THEN UNCHANGED <<projects, disk, lastFailed>>
       ELSE /\ projects' = [projects EXCEPT ![p] = [NoProject EXCEPT !.life = "deleted"]]
            /\ lastFailed' = [lastFailed EXCEPT ![p] = 0]
            /\ disk' = [disk EXCEPT ![p] = NoDisk]
    /\ last' = Other
    /\ UNCHANGED beyondControl
    /\ UNCHANGED <<max_concurrent_processing, current_processing_count,
                   processing_status, tasks, run>>

----------------------------------------------------------------------------
\* The background worker: process_project_background_with_lock.

\* variant: stages that let the exception of a failed LLM call escape
StageRaisesOnLLM(n, llm, io) == io # "ok" \/ llm \in {"auth", "transport"}

\* The outcomes of one stage execution that the worker's control flow can
\* tell apart.  llm: what the stage's LLM calls ended in after
\* call_with_retry ("auth": ValueError for a missing or invalid key, raised
\* at once; "transport": the last attempt's exception re-raised).  io: an
\* error outside the LLM calls (an artifact that cannot be read or written,
\* a missing prompt file).
LLMOutcomes(n) == IF n \in LLMStages THEN {"ok", "auth", "transport"} ELSE {"none"}
IOOutcomes == {"ok", "raise"}

\* Whether run_stepN raises.  Stages 1-5 wrap every call_with_retry in
\* try/except Exception and carry on (skip the chunk, keep the clips, fall
\* back to default collections), so only an error outside those blocks
\* escapes the stage.
StageRaises(n, llm, io) == io # "ok"

\* variant: a pipeline that always begins with stage 1
FirstStageAlways1(start_step) == 1

\* run_full_pipeline runs 1..6; run_from_step runs range(start_step, 7)
FirstStage(start_step) == start_step

\* variant: a pipeline that leaves out every other stage
NextStageSkip(n) == n + 2

\* the stage after stage n: for step in range(start_step, 7), and the
\* statement order of run_full_pipeline
NextStage(n) == n + 1

\* variant: a worker that exits without giving its slot back
ReleasedCountKept(count) == count

\* the finally block: if current_processing_count > 0: current_processing_count -= 1
ReleasedCount(count) == IF count > 0 THEN count - 1 ELSE count

\* an LLM call of the stage ultimately failed
LLMFailed(llm) == llm \in {"auth", "transport"}

\* history: the first stage of the run in which an LLM call ultimately failed
FirstFailure(sofar, n, llm) == IF sofar = 0 /\ LLMFailed(llm) THEN n ELSE sofar

\* validate_input_files(...)["can_process"]: input.mp4 and input.srt are
\* both found under the project tree (the subtitle upload is optional, and
\* a video is stored under its own extension)
CanProcess(d, found) == d.exists /\ found

\* process_project_background, lines 646-658: the status is set, the
\* snapshot written, and only then the project looked up.
WorkerBegin ==
    /\ LoopFree
    /\ \E p \in Projects, start \in Stages :
             /\ tasks[p][start] > 0
             /\ tasks' = [tasks EXCEPT ![p][start] = @ - 1]
             /\ projects' = update_project(projects, p, "processing",
                                           projects[p].error_message)
             /\ processing_status' =
                    [processing_status EXCEPT ![p] =
                        [present |-> TRUE, status |-> "processing",
                         current_step |-> start]]
             /\ run' = [NoRun EXCEPT
                          !.pc = IF projects[p].life = "live" THEN "preflight" ELSE "finally",
                          !.pid = p, !.start_step = start]
             /\ last' = Other
             /\ lastFailed' = [lastFailed EXCEPT ![p] = 0]
    /\ UNCHANGED beyondControl
    /\ UNCHANGED <<max_concurrent_processing, current_processing_count, disk>>

\* AutoClipsProcessor(project_id) and the input validation that opens
\* run_full_pipeline / run_from_step.  A failure is caught by the pipeline,
\* which returns success False.
WorkerPreflight ==
    /\ run.pc = "preflight"
    /\ \E found \in BOOLEAN :
          IF CanProcess(disk[run.pid], found)
          THEN run' = [run EXCEPT !.pc = "stage", !.step = FirstStage(run.start_step)]
          ELSE run' = [run EXCEPT !.pc = "finish", !.success = FALSE]
    /\ last' = Other
    /\ UNCHANGED beyondControl
    /\ UNCHANGED <<max_concurrent_processing, current_processing_count, projects,
                   processing_status, tasks, disk, lastFailed>>

\* One stage of the pipeline: the entry callback, run_stepN (which writes the
\* stage's own artifact files and no other), save_processing_result (the
\* marker stepN_result.json, then current_step in project_metadata.json), the
\* exit callback.  When the stage raises, the pipeline's except branch
\* returns success False; run.written and run.marked record the stages the
\* run has finished (what a raising stage leaves behind is followed file
\* by file in the project-tree machine below).
WorkerStage ==
    /\ run.pc = "stage"
    /\ LET n == run.step
           p == run.pid
       IN \E llm \in LLMOutcomes(n), io \in IOOutcomes :
            /\ processing_status' =
                   [processing_status EXCEPT ![p].status = "processing",
                                             ![p].current_step = n]
            /\ IF StageRaises(n, llm, io)
               THEN /\ run' = [run EXCEPT
                                 !.pc = "finish", !.success = FALSE, !.raisedAt = n,
                                 !.executed = @ \cup {n},
                                 !.order = Append(@, n),
                                 !.llmFailedAt = FirstFailure(@, n, llm),
                                 !.ioFailedAt = IF io # "ok" THEN n ELSE @]
               ELSE /\ run' = [run EXCEPT
                                 !.pc = IF n < TOTAL_STEPS THEN "stage" ELSE "finish",
                                 !.step = IF n < TOTAL_STEPS THEN NextStage(n) ELSE n,
                                 !.success = (n = TOTAL_STEPS),
                                 !.executed = @ \cup {n},
                                 !.order = Append(@, n),
                                 !.written = @ \cup {n},
                                 !.marked = @ \cup {n},
                                 !.llmFailedAt = FirstFailure(@, n, llm)]
            /\ last' = Other
    /\ UNCHANGED beyondControl
    /\ UNCHANGED <<max_concurrent_processing, current_processing_count, projects,
                   tasks, disk, lastFailed>>

\* process_project_background, lines 685-738: the result is projected on the
\* project record and on the snapshot.
WorkerFinish ==
    /\ run.pc = "finish"
    /\ LET p == run.pid IN
         /\ IF run.success
            THEN /\ projects' = update_project(projects, p, "completed",
                                               projects[p].error_message)
                 /\ processing_status' =
                        [processing_status EXCEPT ![p].status = "completed",
                                                  ![p].current_step = TOTAL_STEPS]
                 /\ lastFailed' = [lastFailed EXCEPT ![p] = 0]
            ELSE /\ projects' = update_project(projects, p, "error", TRUE)
                 /\ processing_status' =
                        [processing_status EXCEPT ![p] =
                            [present |-> TRUE, status |-> "error",
                             current_step |-> processing_status[p].current_step]]
                 /\ lastFailed' = [lastFailed EXCEPT ![p] =
                        IF run.raisedAt # 0 THEN run.raisedAt ELSE run.start_step]
         /\ run' = [run EXCEPT !.pc = "finally"]
         /\ last' = Other
    /\ UNCHANGED beyondControl
    /\ UNCHANGED <<max_concurrent_processing, current_processing_count, tasks, disk>>

\* process_project_background_with_lock, the finally block: the slot is
\* given back whatever the worker did.
WorkerRelease ==
    /\ run.pc = "finally"
    /\ current_processing_count' = ReleasedCount(current_processing_count)
    /\ run' = NoRun
    /\ last' = Step("release", run.pid, 0)
    /\ UNCHANGED beyondControl
    /\ UNCHANGED <<max_concurrent_processing, projects, processing_status, tasks,
                   disk, lastFailed>>

\* The server process stops and starts again: ProjectManager.__init__ and
\* load_projects.  The counter, the snapshots and the background tasks are
\* memory and are lost; the project records come back from projects.json
\* and the project trees are on disk.
Restart ==
    /\ current_processing_count' = 0
    /\ processing_status' = [p \in Projects |-> NoStatus]
    /\ tasks' = NoTasks
    /\ run' = NoRun
    /\ last' = Other
    /\ UNCHANGED beyondControl
    /\ UNCHANGED <<max_concurrent_processing, projects, disk, lastFailed>>

----------------------------------------------------------------------------
Next ==
    \/ \E p \in Projects : upload_files(p)
    \/ \E p \in Projects : start_processing(p)
    \/ \E p \in Projects : retry_project_processing(p)
    \/ \E p \in Projects : delete_project(p)
    \/ WorkerBegin
    \/ WorkerPreflight
    \/ WorkerStage
    \/ WorkerFinish
    \/ WorkerRelease
    \/ Restart

Spec == Init /\ [][Next]_vars

----------------------------------------------------------------------------
\* The project-tree machine: one project, its files and the run that writes
\* them, step by step at the grain of a file operation.  Files are written
\* with open(path, 'w') followed by json.dump: the open truncates the file
\* and the content is complete only when the dump has returned.  A reader
\* outside the event loop (the StaticFiles mount of uploads/, any other
\* process) may read between the two, and so may the next server process
\* after a crash.

\* the worker's first statements for an accepted request: the status is
\* persisted, the snapshot written, the pipeline entered at stage start
BeginRun(start) ==
    /\ record' = "processing"
    /\ snap' = [present |-> TRUE, status |-> "processing", current_step |-> start]
    /\ job' = [pc |-> "run_step", start_step |-> start, step |-> start]

\* POST /process accepted, and the worker's first statements
TreeStart ==
    /\ job.pc = "idle"
    /\ StartAllowed(record)
    /\ BeginRun(1)
    /\ seen' = "nothing"
    /\ UNCHANGED <<tree, lastExec>>
    /\ UNCHANGED beyondTree

\* POST /retry accepted, and the worker's first statements
TreeRetry ==
    /\ job.pc = "idle"
    /\ RetryAllowed(record)
    /\ BeginRun(failed_step(snap, [current_step |-> 0]))
    /\ seen' = "nothing"
    /\ UNCHANGED <<tree, lastExec>>
    /\ UNCHANGED beyondTree

\* run_stepN reaches its save and opens the artifact file for writing
OpenArtifact ==
    /\ job.pc = "run_step"
    /\ snap' = [snap EXCEPT !.current_step = job.step]
    /\ tree' = [tree EXCEPT !.artifact[job.step] = "torn"]
    /\ lastExec' = lastExec \ {job.step}
    /\ job' = [job EXCEPT !.pc = "artifact_open"]
    /\ seen' = "nothing"
    /\ UNCHANGED record
    /\ UNCHANGED beyondTree

\* json.dump of the artifact returns and the file is closed
CloseArtifact ==
    /\ job.pc = "artifact_open"
    /\ tree' = [tree EXCEPT !.artifact[job.step] = "done"]
    /\ job' = [job EXCEPT !.pc = "save_result"]
    /\ seen' = "nothing"
    /\ UNCHANGED <<record, snap, lastExec>>
    /\ UNCHANGED beyondTree

\* save_processing_result opens stepN_result.json for writing
OpenMarker ==
    /\ job.pc = "save_result"
    /\ tree' = [tree EXCEPT !.marker[job.step] = "torn"]
    /\ job' = [job EXCEPT !.pc = "marker_open"]
    /\ seen' = "nothing"
    /\ UNCHANGED <<record, snap, lastExec>>
    /\ UNCHANGED beyondTree

\* json.dump of the marker returns
CloseMarker ==
    /\ job.pc = "marker_open"
    /\ tree' = [tree EXCEPT !.marker[job.step] = "done"]
    /\ job' = [job EXCEPT !.pc = "update_metadata"]
    /\ seen' = "nothing"
    /\ UNCHANGED <<record, snap, lastExec>>
    /\ UNCHANGED beyondTree

\* save_processing_result ends with update_project_metadata(current_step =
\* N); the stage has finished and the loop goes on to the next one
UpdateMetadata ==
    /\ job.pc = "update_metadata"
    /\ tree' = [tree EXCEPT !.meta_step = job.step]
    /\ lastExec' = lastExec \cup {job.step}
    /\ job' = IF job.step < TOTAL_STEPS
              THEN [job EXCEPT !.pc = "run_step", !.step = NextStage(job.step)]
              ELSE [job EXCEPT !.pc = "finish"]
    /\ seen' = "nothing"
    /\ UNCHANGED <<record, snap>>
    /\ UNCHANGED beyondTree

\* the stage raises, wherever it stands; the pipeline returns success False
\* and the worker records the error, keeping the current_step that the
\* stage's entry callback has put in the snapshot
StageFails ==
    /\ job.pc \in {"run_step", "artifact_open", "save_result", "marker_open",
                   "update_metadata"}
    /\ lastExec' = lastExec \ {job.step}
    /\ snap' = [present |-> TRUE, status |-> "error",
                current_step |-> job.step]
    /\ record' = "error"
    /\ job' = NoJob
    /\ seen' = "nothing"
    /\ UNCHANGED tree
    /\ UNCHANGED beyondTree

\* all six stages done: status completed, snapshot completed at step 6
RunCompletes ==
    /\ job.pc = "finish"
    /\ record' = "completed"
    /\ snap' = [present |-> TRUE, status |-> "completed", current_step |-> TOTAL_STEPS]
    /\ job' = NoJob
    /\ seen' = "nothing"
    /\ UNCHANGED <<tree, lastExec>>
    /\ UNCHANGED beyondTree

\* The server process dies and is started again: the run and the snapshot
\* are lost, projects.json and the tree are as they were left.
Crash ==
    /\ job' = NoJob
    /\ snap' = NoStatus
    /\ seen' = "nothing"
    /\ UNCHANGED <<tree, record, lastExec>>
    /\ UNCHANGED beyondTree

\* a reader opens one of the tree's files and reads it to the end
ReadFile ==
    /\ \E kind \in {"artifact", "marker"}, n \in Stages :
          seen' = tree[kind][n]
    /\ UNCHANGED <<tree, record, snap, job, lastExec>>
    /\ UNCHANGED beyondTree

TreeNext ==
    \/ TreeStart
    \/ TreeRetry
    \/ OpenArtifact
    \/ CloseArtifact
    \/ OpenMarker
    \/ CloseMarker
    \/ UpdateMetadata
    \/ StageFails
    \/ RunCompletes
    \/ Crash
    \/ ReadFile

\* the run-control machine stands still, at the default limit
InitTree == Init /\ max_concurrent_processing = 1

SpecTree == InitTree /\ [][TreeNext]_vars

\* AutoClipsProcessor.check_step_completion: get_processing_result returns
\* None when stepN_result.json does not exist, its parsed content when it
\* does, and raises when the content cannot be parsed
check_step_completion(t, n) ==
    CASE t.marker[n] = "none" -> "incomplete"
      [] t.marker[n] = "done" -> "complete"
      [] OTHER -> "raises"

\* GET /api/projects/{id}/status: the snapshot if there is one, else a
\* default chosen by the persisted status
get_processing_status(status, snapshot) ==
    IF snapshot.present
    THEN [status |-> snapshot.status, current_step |-> snapshot.current_step]
    ELSE IF status = "completed"
    THEN [status |-> "completed", current_step |-> TOTAL_STEPS]
    ELSE IF status = "error"
    THEN [status |-> "error", current_step |-> 0]
    ELSE [status |-> "processing", current_step |-> 0]

\* the highest-numbered stage whose marker exists, 0 if there is none
RECURSIVE HighestMarker(_, _)
HighestMarker(t, n) ==
    IF n = 0 THEN 0
    ELSE IF t.marker[n] # "none" THEN n
    ELSE HighestMarker(t, n - 1)

----------------------------------------------------------------------------
\* What the properties below observe.

\* the worker that holds the event loop, counted for the project it works on
Running(p) == IF run.pc # "idle" /\ run.pid = p THEN 1 ELSE 0

\* the workers spawned for p that have not exited
Workers(p) == PendingFor(p) + Running(p)

\* the workers spawned that have not exited
ActiveRuns == Pending + (IF run.pc # "idle" THEN 1 ELSE 0)

\* the run-control requests
Request == {"start", "retry"}

\* the value the counter had when the request recorded in last arrived
PriorCount ==
    IF last.code = HTTP_OK THEN current_processing_count - 1
    ELSE current_processing_count

\* the projects whose record says processing
Processing == {p \in Projects : projects[p].status = "processing"}

----------------------------------------------------------------------------
C2_BusyAlways429 ==
    /\ ActiveRuns <= max_concurrent_processing
    /\ (last.op \in Request /\ PriorCount >= max_concurrent_processing)
           => last.code = HTTP_TOO_MANY

\* C2: the workers never exceed max_concurrent_processing; a start or retry
\* request that arrives while the counter is at the cap neither increments
\* the counter nor spawns a worker, and it is answered 429 unless it fails
\* the existence check (404) or the status check (400) made before the cap
\* is looked at.
C2_GlobalCap ==
    /\ [](ActiveRuns <= max_concurrent_processing)
    /\ [][\A p \in Projects :
            (last'.op \in Request /\ last'.pid = p /\ Busy) =>
                /\ current_processing_count' = current_processing_count
                /\ tasks' = tasks
                /\ last'.code \in {HTTP_NOT_FOUND, HTTP_BAD_REQUEST, HTTP_TOO_MANY}
                /\ last'.code = HTTP_NOT_FOUND => projects[p].life # "live"
                /\ last'.code = HTTP_BAD_REQUEST =>
                       /\ projects[p].life = "live"
                       /\ projects[p].status #
                              (IF last'.op = "start" THEN "uploading" ELSE "error")
         ]_vars

\* C2 witness: a request for one project is answered 429 while the only slot
\* is held by a worker of another project
C2_Witness ==
    /\ last.op \in Request
    /\ last.code = HTTP_TOO_MANY
    /\ current_processing_count = max_concurrent_processing
    /\ \E q \in Projects : q # last.pid /\ Workers(q) = 1

\* C3: every spawned worker gives its slot back exactly once on every exit
\* path, so the counter is the number of workers spawned and not yet exited
\* (0 once all have exited), and a request is refused as busy only while
\* that number is at the cap.
C3_SlotRelease ==
    /\ current_processing_count = ActiveRuns
    /\ (last.op \in Request /\ last.code = HTTP_TOO_MANY)
           => ActiveRuns >= max_concurrent_processing

\* C3 witness: a worker whose run failed has exited and the counter is 0
C3_Witness ==
    /\ last.op = "release"
    /\ projects[last.pid].status = "error"
    /\ current_processing_count = 0

\* C4: of two start requests issued back-to-back for the same project the
\* second, which finds a worker of the project spawned and not yet exited,
\* is answered with the conflict outcome (400, not 429) and spawns nothing;
\* the counter is 0 once the worker has exited.
C4_SecondStartConflict ==
    /\ (/\ last.op = "start"
        /\ projects[last.pid].life = "live"
        /\ Workers(last.pid) > (IF last.code = HTTP_OK THEN 1 ELSE 0))
           => (last.code = HTTP_BAD_REQUEST /\ Workers(last.pid) = 1)
    /\ (last.op = "release" /\ ActiveRuns = 0) => current_processing_count = 0

\* C5: the counter is never negative and equals the number of projects
\* whose status is processing.
C5_CounterIsProcessing ==
    /\ current_processing_count >= 0
    /\ current_processing_count = Cardinality(Processing)

\* C6: when a worker exits, the project is completed with current_step 6 if
\* every stage of the run succeeded, and otherwise in error with an error
\* message; its status is never left at processing.
C6_TerminalAtExit ==
    run.pc = "finally" =>
        /\ IF run.success
           THEN /\ projects[run.pid].status = "completed"
                /\ processing_status[run.pid].current_step = TOTAL_STEPS
           ELSE /\ projects[run.pid].status = "error"
                /\ projects[run.pid].error_message
        /\ processing_status[run.pid].status # "processing"

C8_RetryFromFailedStage ==
    (last.op = "retry" /\ last.code = HTTP_OK) =>
        /\ lastFailed[last.pid] \in Stages
        /\ tasks[last.pid][lastFailed[last.pid]] > 0

\* C9: a retry is accepted only when the project's status is error; on any
\* other status it is refused and leaves the status, the snapshot, the
\* counter, the workers and the project tree as they were.
C9_RetryOnlyFromError ==
    [][\A p \in Projects :
         (last'.op = "retry" /\ last'.pid = p /\ projects[p].status # "error") =>
             /\ last'.code \in {HTTP_NOT_FOUND, HTTP_BAD_REQUEST}
             /\ UNCHANGED <<projects, processing_status, current_processing_count,
                            tasks, run, disk>>
      ]_vars

\* C9 witness: a retry of a completed project has been refused and the
\* project is still completed, its snapshot included
C9_Witness ==
    /\ last.op = "retry"
    /\ last.code = HTTP_BAD_REQUEST
    /\ projects[last.pid].status = "completed"
    /\ processing_status[last.pid].status = "completed"
    /\ current_processing_count = 0

\* C10: a run that starts at stage N executes no stage below N and writes
\* no artifact of a stage below N.
C10_PriorStagesUntouched ==
    run.pc # "idle" =>
        \A n \in run.executed \cup run.written : n >= run.start_step

\* C10 witness: a retry from stage 3 has run stages 3..6 and only those
C10_Witness ==
    /\ run.pc = "finally"
    /\ run.start_step = 3
    /\ run.success
    /\ run.executed = 3..TOTAL_STEPS
    /\ run.written = 3..TOTAL_STEPS

\* C11: within one run the stages execute in strictly increasing order from
\* the start stage, none skipped or repeated; a stage is followed by the next
\* only after it has written its artifact and its marker; after a stage
\* that raised no further stage executes.
C11_StagesInOrder ==
    run.pc # "idle" =>
        /\ \A i \in 1..Len(run.order) : run.order[i] = run.start_step + i - 1
        /\ \A i \in 1..(Len(run.order) - 1) :
               run.order[i] \in run.written \cap run.marked
        /\ run.pc = "stage" =>
               /\ run.step = run.start_step + Len(run.order)
               /\ \A i \in 1..Len(run.order) :
                      run.order[i] \in run.written \cap run.marked
        /\ run.raisedAt # 0 =>
               /\ run.pc \in {"finish", "finally"}
               /\ run.order[Len(run.order)] = run.raisedAt

\* C11 witness: stage 3 raised after stages 1 and 2 had written artifact and
\* marker, and the run stopped there
C11_Witness ==
    /\ run.pc = "finally"
    /\ run.raisedAt = 3
    /\ run.order = <<1, 2, 3>>
    /\ run.marked = {1, 2}
    /\ run.written = {1, 2}

\* C12: with no stage in progress, a stage is reported complete if and only
\* if its marker stepN_result.json exists, and a marker exists only if the
\* latest execution of its stage finished successfully, its artifact
\* written.
C12_MarkerMeansComplete ==
    job.pc = "idle" =>
        \A n \in Stages :
            /\ check_step_completion(tree, n) = "complete" <=> tree.marker[n] # "none"
            /\ tree.marker[n] # "none" =>
                   (n \in lastExec /\ tree.artifact[n] = "done")

\* the changes of a project's status that the run control is meant to make
StatusTransitions ==
    {<<"uploading", "processing">>, <<"processing", "completed">>,
     <<"processing", "error">>, <<"error", "processing">>}

\* C13: the status of a project changes only from created to processing,
\* from processing to completed or error, and from error to processing; no
\* step takes a project out of processing except the end of its run, none
\* takes an error or completed project back to the not-started status.
C13_StatusTransitions ==
    [][\A p \in Projects :
         (/\ projects[p].life = "live"
          /\ projects'[p].life = "live"
          /\ projects'[p].status # projects[p].status)
             => <<projects[p].status, projects'[p].status>> \in StatusTransitions
      ]_vars

\* C14: once the process has restarted (the snapshot is gone) the current
\* step reported for a project that has been run is the number of the
\* highest marker on disk, and the project is reported completed exactly
\* when the marker of stage 6 exists.
C14_StatusFromMarkers ==
    (job.pc = "idle" /\ ~snap.present /\ record # "uploading") =>
        LET reported == get_processing_status(record, snap) IN
            /\ reported.current_step = HighestMarker(tree, TOTAL_STEPS)
            /\ reported.status = "completed" <=> tree.marker[TOTAL_STEPS] # "none"

\* C15: a reader of a file of the tree gets the complete previous content
\* or the complete new content, never a partially written file.
C15_NoTornRead == seen # "torn"

----------------------------------------------------------------------------
\* The functions of the pipeline stages (src/src/pipeline).  Each is an
\* operator computed as the code computes it; an action of this machine
\* applies one of them to an input drawn from a bounded set and records the
\* input and the result in call.  What the LLM answers is part of the input.

\* bounds of the stage inputs
MaxItems == 2        \* items of a timeline, clips of a project

ChunkIndexes == {0, 1}

\* scores in hundredths: MIN_SCORE_THRESHOLD = 0.7
MIN_SCORE_THRESHOLD == 70

SeqsUpTo(S, n) == UNION {[1..k -> S] : k \in 0..n}

Range(f) == {f[i] : i \in DOMAIN f}

\* list.sort(key=...): a stable sort.  keys[i] is the key of the i-th
\* element; the result lists the positions in sorted order, built by
\* inserting each position after the positions whose key is not larger.
RECURSIVE InsertByKey(_, _, _)
InsertByKey(sorted, i, keys) ==
    IF sorted = <<>> THEN <<i>>
    ELSE IF keys[i] < keys[Head(sorted)] THEN <<i>> \o sorted
    ELSE <<Head(sorted)>> \o InsertByKey(Tail(sorted), i, keys)

RECURSIVE SortedPositions(_, _, _)
SortedPositions(done, i, keys) ==
    IF i > Len(keys) THEN done
    ELSE SortedPositions(InsertByKey(done, i, keys), i + 1, keys)

\* variant: the final sort is left out
SortByKeyNone(seq, keys) == seq

SortByKey(seq, keys) ==
    LET order == SortedPositions(<<>>, 1, keys) IN
        [i \in 1..Len(seq) |-> seq[order[i]]]

\* the keys of a defaultdict(list) filled from a list, in insertion order
RECURSIVE ChunkOrderFrom(_, _)
ChunkOrderFrom(seen_so_far, items) ==
    IF items = <<>> THEN seen_so_far
    ELSE IF Head(items).chunk_index \in Range(seen_so_far)
         THEN ChunkOrderFrom(seen_so_far, Tail(items))
         ELSE ChunkOrderFrom(Append(seen_so_far, Head(items).chunk_index), Tail(items))

ChunkOrder(items) == ChunkOrderFrom(<<>>, items)

ItemsOfChunk(items, c) == SelectSeq(items, LAMBDA it : it.chunk_index = c)

\* ---- S1: TextProcessor.chunk_srt_data (text_processor.py)
MaxCues == 3         \* cues of a subtitle file

\* interval_minutes = 30 and pause_threshold_ms = 1000
INTERVAL_SECONDS == 1800
PAUSE_THRESHOLD_MS == 1000

\* A cue by its SRT index and the seconds of its start and end (whole
\* seconds here), as time_to_seconds gives them: cues that start at the
\* beginning, shortly before and shortly after the first target cut, and
\* after the second; a cue lasts a second or runs into the next start.
CueStarts == {0, 1700, 2000, 3700}
CueLengths == {1, 300}

CueLists ==
    UNION {{[i \in 1..k |-> [index |-> i, start_seconds |-> st[i],
                             end_seconds |-> st[i] + ln[i]]] :
                st \in [1..k -> CueStarts], ln \in [1..k -> CueLengths]} : k \in 0..MaxCues}

\* the first position from i on whose cue starts at or after 90% of the target
RECURSIVE SearchStart(_, _, _)
SearchStart(srt, i, target_cut_time) ==
    IF i <= Len(srt) /\ srt[i].start_seconds * 10 < target_cut_time * 9
    THEN SearchStart(srt, i + 1, target_cut_time)
    ELSE i

\* the position after the first pause of at least the threshold, looked for
\* from i up to the last but one cue and no further than 110% of the target
\* (0: none)
RECURSIVE PauseCut(_, _, _)
PauseCut(srt, i, target_cut_time) ==
    IF i >= Len(srt) THEN 0
    ELSE IF srt[i].start_seconds * 10 > target_cut_time * 11 THEN 0
    ELSE IF (srt[i + 1].start_seconds - srt[i].end_seconds) * 1000 >= PAUSE_THRESHOLD_MS
    THEN i + 1
    ELSE PauseCut(srt, i + 1, target_cut_time)

\* the first position from i on whose cue starts at or after the target
RECURSIVE ForcedCut(_, _, _)
ForcedCut(srt, i, target_cut_time) ==
    IF i <= Len(srt) /\ srt[i].start_seconds < target_cut_time
    THEN ForcedCut(srt, i + 1, target_cut_time)
    ELSE i

\* variant: a cut that does not advance is used as it is
UsableCutAsFound(srt, best_cut, current_chunk_start) == best_cut

\* a cut that does not advance takes everything that is left
UsableCut(srt, best_cut, current_chunk_start) ==
    IF best_cut <= current_chunk_start THEN Len(srt) + 1 ELSE best_cut

\* positions count from 1: best_cut is the position of the first cue of the
\* next chunk
RECURSIVE ChunksFrom(_, _, _, _)
ChunksFrom(srt, current_chunk_start, last_cut_time, chunk_index) ==
    IF current_chunk_start > Len(srt) THEN <<>>
    ELSE LET target_cut_time == last_cut_time + INTERVAL_SECONDS
             pause_cut == PauseCut(srt, SearchStart(srt, current_chunk_start, target_cut_time),
                                   target_cut_time)
             found == IF pause_cut # 0 THEN pause_cut
                      ELSE ForcedCut(srt, current_chunk_start, target_cut_time)
             best_cut == UsableCut(srt, found, current_chunk_start)
             chunk_entries == SubSeq(srt, current_chunk_start, best_cut - 1)
         IN  IF chunk_entries = <<>> THEN <<>>
             ELSE <<[chunk_index |-> chunk_index,
                     start_time |-> chunk_entries[1].start_seconds,
                     end_time |-> chunk_entries[Len(chunk_entries)].end_seconds,
                     srt_entries |-> chunk_entries]>>
                  \o ChunksFrom(srt, best_cut, chunk_entries[Len(chunk_entries)].end_seconds,
                                chunk_index + 1)

chunk_srt_data(srt_data) ==
    IF srt_data = <<>> THEN <<>> ELSE ChunksFrom(srt_data, 1, 0, 0)

ApplyChunkSrtData ==
    /\ call = NoCall
    /\ \E srt_data \in CueLists :
           call' = [fn |-> "chunk_srt_data", arg |-> srt_data, out |-> chunk_srt_data(srt_data)]
    /\ UNCHANGED beyondStages

\* ---- S2: step2_timeline.py
MaxEntries == 1      \* elements of the array the LLM returns for a chunk

\* A time string "00:MM:SS,000" that matches _validate_time_format, by its
\* minute and second fields.
MinuteFields == {0, 1}
SecondFields == {0, 30}
TimeStrings == [m : MinuteFields, s : SecondFields]

\* TextProcessor.time_to_seconds: h * 3600 + m * 60 + s + ms / 1000
time_to_seconds(time_str) == time_str.m * 60 + time_str.s

\* str(n) of a positive integer: its decimal digits
RECURSIVE str(_)
str(n) == IF n < 10 THEN <<n>> ELSE str(n \div 10) \o <<n % 10>>

\* The time range of a chunk of step1_srt_chunks: the start of its first
\* subtitle and the end of its last; the chunks follow one another.
SrtChunkRanges ==
    {r \in [start_time : TimeStrings, end_time : TimeStrings] :
        time_to_seconds(r.start_time) < time_to_seconds(r.end_time)}

SrtChunkings ==
    {f \in [ChunkIndexes -> SrtChunkRanges] :
        time_to_seconds(f[0].end_time) <= time_to_seconds(f[1].start_time)}

\* One element of the array the LLM returns for a chunk: an object with
\* outline, start_time and end_time in the required format ("item"); one
\* whose start_time or end_time is not in that format ("bad_time"); an
\* object with none of the three fields ("foreign"); or an element that
\* _validate_json_structure rejects, no object or an object with some of
\* the three fields only ("partial").
TimelineEntries ==
    [kind : {"item"}, start_time : TimeStrings, end_time : TimeStrings]
    \cup {[kind |-> k, start_time |-> [m |-> 0, s |-> 0], end_time |-> [m |-> 0, s |-> 0]] :
            k \in {"bad_time", "foreign", "partial"}}

\* What the LLM answers for a chunk: the parser raises, the response is
\* empty, the parsed value is no array, or it is an array.  For
\* extract_timeline it is the response of the attempt that ends the retry
\* loop of the chunk.
TimelineResponses ==
    {[kind |-> k, entries |-> <<>>] : k \in {"raises", "empty", "not_list"}}
    \cup {[kind |-> "list", entries |-> e] : e \in SeqsUpTo(TimelineEntries, MaxEntries)}

Validated(entry, chunk_start, chunk_end, chunk_index) ==
    [start_time |-> IF time_to_seconds(entry.start_time) < time_to_seconds(chunk_start)
                    THEN chunk_start ELSE entry.start_time,
     end_time |-> IF time_to_seconds(entry.end_time) > time_to_seconds(chunk_end)
                  THEN chunk_end ELSE entry.end_time,
     chunk_index |-> chunk_index]

parse_and_validate_response(response, chunk_start, chunk_end, chunk_index) ==
    IF response.kind # "list" THEN <<>>
    ELSE IF \E i \in 1..Len(response.entries) : response.entries[i].kind = "partial"
    THEN <<>>
    ELSE LET items == SelectSeq(response.entries, LAMBDA e : e.kind = "item") IN
             [i \in 1..Len(items) |-> Validated(items[i], chunk_start, chunk_end, chunk_index)]

ApplyParseAndValidate ==
    /\ call = NoCall
    /\ \E chunk \in SrtChunkRanges, chunk_index \in ChunkIndexes :
       \E response \in TimelineResponses :
           call' = [fn |-> "parse_and_validate_response",
                    arg |-> [response |-> response, chunk |-> chunk,
                             chunk_index |-> chunk_index],
                    out |-> parse_and_validate_response(response, chunk.start_time,
                                                        chunk.end_time, chunk_index)]
    /\ UNCHANGED beyondStages

\* max_parse_retries of the loop that asks the LLM about one chunk
MAX_PARSE_RETRIES == 2

\* What one pass of that loop meets: call_with_retry or the write of the
\* raw response raises, the response is empty, the response parses to no
\* validated item, or it parses to some.
AttemptOutcomes == {"raises", "empty", "unparsed", "items"}

\* variant: the retry leaves input_data as it was
EscalatedNot(instructed) == instructed

\* input_data['additional_instruction'] = ...: from now on the prompt
\* carries the strict-JSON instruction
Escalated(instructed) == TRUE

\* The loop from pass retry_count on.  prompts lists, for each request made
\* so far, whether its prompt carried the instruction; instructed tells
\* whether input_data carries it now.  parsed_at is the pass whose items were
\* written to the chunk's result file (0: none was).
RECURSIVE ChunkLoopFrom(_, _, _, _)
ChunkLoopFrom(retry_count, attempts, instructed, prompts) ==
    IF retry_count > MAX_PARSE_RETRIES
    THEN [requests |-> Len(prompts), prompts |-> prompts, parsed_at |-> 0]
    ELSE LET asked == Append(prompts, instructed) IN
         CASE attempts[retry_count + 1] = "raises" ->
                ChunkLoopFrom(retry_count + 1, attempts, instructed, asked)
           [] attempts[retry_count + 1] = "empty" ->
                [requests |-> Len(asked), prompts |-> asked, parsed_at |-> 0]
           [] attempts[retry_count + 1] = "items" ->
                [requests |-> Len(asked), prompts |-> asked,
                 parsed_at |-> retry_count + 1]
           [] OTHER ->
                ChunkLoopFrom(retry_count + 1, attempts,
                              IF retry_count < MAX_PARSE_RETRIES
                              THEN Escalated(instructed) ELSE instructed,
                              asked)

ChunkLoop(attempts) == ChunkLoopFrom(0, attempts, FALSE, <<>>)

ApplyChunkLoop ==
    /\ call = NoCall
    /\ \E attempts \in [1..(MAX_PARSE_RETRIES + 1) -> AttemptOutcomes] :
           call' = [fn |-> "chunk_loop", arg |-> attempts, out |-> ChunkLoop(attempts)]
    /\ UNCHANGED beyondStages

\* parsed_items after the loop of chunk k, llm[k] being the response of the
\* pass that ended it: an empty response ends the loop with no item
ParsedItems(srt_chunks, llm, k) ==
    IF llm[k].kind = "empty" THEN <<>>
    ELSE parse_and_validate_response(llm[k], srt_chunks[k].start_time,
                                     srt_chunks[k].end_time, k)

\* The files step2_timeline_chunks/chunk_<k>.json an earlier execution of
\* the stage left in the project: none, or the file of the first chunk, with
\* one validated item.
EarlierChunkFiles ==
    {[k \in ChunkIndexes |-> <<>>],
     [k \in ChunkIndexes |->
         IF k = 0 THEN <<[start_time |-> [m |-> 0, s |-> 0],
                          end_time |-> [m |-> 0, s |-> 30], chunk_index |-> 0]>>
         ELSE <<>>]}

\* the content of step2_timeline_chunks/chunk_<k>.json after the loop: the
\* file is written when the loop ends with items, and is otherwise left as
\* it was (<<>>: there is no file)
ChunkFile(earlier, srt_chunks, llm, k) ==
    IF ParsedItems(srt_chunks, llm, k) # <<>> THEN ParsedItems(srt_chunks, llm, k)
    ELSE earlier[k]

WithIds(timeline) ==
    [i \in 1..Len(timeline) |->
        [id |-> str(i), start_time |-> timeline[i].start_time,
         end_time |-> timeline[i].end_time, chunk_index |-> timeline[i].chunk_index]]

extract_timeline(earlier, srt_chunks, llm) ==
    LET all_timeline_data == ChunkFile(earlier, srt_chunks, llm, 0)
                                \o ChunkFile(earlier, srt_chunks, llm, 1) IN
        WithIds(SortByKey(all_timeline_data,
                          [i \in 1..Len(all_timeline_data) |->
                              time_to_seconds(all_timeline_data[i].start_time)]))

\* the answers for the chunks of one video, MaxEntries + 1 elements in all
TimelineAnswers ==
    {llm \in [ChunkIndexes -> TimelineResponses] :
        Len(llm[0].entries) + Len(llm[1].entries) <= MaxEntries + 1}

ApplyExtractTimeline ==
    /\ call = NoCall
    /\ \E llm \in TimelineAnswers : \E srt_chunks \in SrtChunkings :
       \E earlier \in EarlierChunkFiles :
           call' = [fn |-> "extract_timeline",
                    arg |-> [earlier |-> earlier, srt_chunks |-> srt_chunks, llm |-> llm],
                    out |-> extract_timeline(earlier, srt_chunks, llm)]
    /\ UNCHANGED beyondStages

\* ---- S3: step3_scoring.py
\* The items of step2_timeline.json as S3 reads them: ids 1..n in list order,
\* each with the index of the chunk it came from.
TimelineItems(n) ==
    {[i \in 1..n |-> [id |-> i, chunk_index |-> ci[i]]] : ci \in [1..n -> ChunkIndexes]}

\* One element of the array the LLM returns: with both final_score and
\* recommend_reason, or with one of them missing.
ScoreEntries == {[complete |-> TRUE, final_score |-> 90],
                 [complete |-> FALSE, final_score |-> 0]}

\* What call_with_retry followed by parse_json_response yields for a chunk:
\* an exception, a JSON array, a JSON value that is no array but has a
\* length (object, string), or one that has none (number, null, boolean).
ScoreResponses ==
    {[kind |-> k, entries |-> <<>>] : k \in {"raises", "sized", "unsized"}}
    \cup {[kind |-> "list", entries |-> e] : e \in SeqsUpTo(ScoreEntries, MaxItems + 1)}

Scored(clip, score, reason) ==
    [id |-> clip.id, chunk_index |-> clip.chunk_index,
     final_score |-> score, recommend_reason |-> reason]

BatchFailed(clips) ==
    [i \in 1..Len(clips) |-> Scored(clips[i], 0, "batch_failed")]

get_llm_evaluation(clips, response) ==
    CASE response.kind = "raises" -> BatchFailed(clips)
      \* len() of the value raises inside the error message: the except branch
      [] response.kind = "unsized" -> BatchFailed(clips)
      [] response.kind = "sized" -> <<>>
      [] response.kind = "list" ->
            IF Len(response.entries) # Len(clips) THEN <<>>
            ELSE [i \in 1..Len(clips) |->
                    IF response.entries[i].complete
                    THEN Scored(clips[i], response.entries[i].final_score, "llm")
                    ELSE Scored(clips[i], 0, "evaluation_failed")]

RECURSIVE ScoreChunks(_, _, _)
ScoreChunks(order, timeline_data, llm) ==
    IF order = <<>> THEN <<>>
    ELSE LET scored_chunk_items ==
                 get_llm_evaluation(ItemsOfChunk(timeline_data, Head(order)), llm[Head(order)])
         IN  \* an empty result is logged and the chunk skipped
             scored_chunk_items \o ScoreChunks(Tail(order), timeline_data, llm)

\* the sort by final_score is undone by the sort by id that follows it
score_clips(timeline_data, llm) ==
    IF timeline_data = <<>> THEN <<>>
    ELSE LET all_scored_clips == ScoreChunks(ChunkOrder(timeline_data), timeline_data, llm)
         IN  SortByKey(all_scored_clips,
                       [i \in 1..Len(all_scored_clips) |-> all_scored_clips[i].id])

run_step3_scoring(timeline_data, llm) ==
    LET scored_clips == score_clips(timeline_data, llm) IN
        [all_scored |-> scored_clips,
         high_score_clips |->
             SelectSeq(scored_clips, LAMBDA c : c.final_score >= MIN_SCORE_THRESHOLD)]

ApplyStep3 ==
    /\ call = NoCall
    /\ \E n \in 1..MaxItems : \E timeline_data \in TimelineItems(n) :
       \E llm \in [ChunkIndexes -> ScoreResponses] :
           call' = [fn |-> "run_step3_scoring",
                    arg |-> [timeline_data |-> timeline_data, llm |-> llm],
                    out |-> run_step3_scoring(timeline_data, llm)]
    /\ UNCHANGED beyondStages

\* ---- S4: step4_title.py
\* The clips of step3_high_score_clips.json as S4 reads them: the id S2 gave
\* the item, its chunk, and its outline (a string the LLM of S2 chose, which
\* may be empty).
Outlines == {"outline", ""}

HighScoreClips(n) ==
    {[i \in 1..n |-> [id |-> i, chunk_index |-> ci[i], outline |-> o[i]]] :
        ci \in [1..n -> ChunkIndexes], o \in [1..n -> Outlines]}

\* What the LLM answers for a chunk: call_with_retry or the parser raises,
\* the response is empty, the parsed value is no mapping, or it is a mapping
\* that gives for a clip id a non-empty string ("title"), nothing
\* ("missing"), or a value that is no non-empty string ("malformed").
TitleEntries == {"title", "missing", "malformed"}

TitleResponses ==
    {[kind |-> k, titles |-> <<>>] : k \in {"raises", "empty", "not_mapping"}}
    \cup {[kind |-> "mapping", titles |-> t] : t \in [1..MaxItems -> TitleEntries]}

\* generated_title "unset": the clip has no such key
Untitled(clip) ==
    [id |-> clip.id, chunk_index |-> clip.chunk_index, outline |-> clip.outline,
     generated_title |-> "unset"]

Titled(clip, title) ==
    [id |-> clip.id, chunk_index |-> clip.chunk_index, outline |-> clip.outline,
     generated_title |-> title]

TitleChunk(chunk_clips, response) ==
    CASE response.kind = "raises" ->
            [i \in 1..Len(chunk_clips) |-> Untitled(chunk_clips[i])]
      [] response.kind = "not_mapping" ->
            [i \in 1..Len(chunk_clips) |-> Untitled(chunk_clips[i])]
      [] response.kind = "empty" ->
            [i \in 1..Len(chunk_clips) |-> Titled(chunk_clips[i], chunk_clips[i].outline)]
      [] response.kind = "mapping" ->
            [i \in 1..Len(chunk_clips) |->
                IF response.titles[chunk_clips[i].id] = "title"
                THEN Titled(chunk_clips[i], "generated")
                ELSE Titled(chunk_clips[i], chunk_clips[i].outline)]

RECURSIVE TitleChunks(_, _, _)
TitleChunks(order, high_score_clips, llm) ==
    IF order = <<>> THEN <<>>
    ELSE TitleChunk(ItemsOfChunk(high_score_clips, Head(order)), llm[Head(order)])
         \o TitleChunks(Tail(order), high_score_clips, llm)

generate_titles(high_score_clips, llm) ==
    IF high_score_clips = <<>> THEN <<>>
    ELSE TitleChunks(ChunkOrder(high_score_clips), high_score_clips, llm)

ApplyStep4 ==
    /\ call = NoCall
    /\ \E n \in 1..MaxItems : \E high_score_clips \in HighScoreClips(n) :
       \E llm \in [ChunkIndexes -> TitleResponses] :
           call' = [fn |-> "generate_titles",
                    arg |-> [high_score_clips |-> high_score_clips, llm |-> llm],
                    out |-> generate_titles(high_score_clips, llm)]
    /\ UNCHANGED beyondStages

\* ---- S5: step5_clustering.py, and the manual collections of backend_server.py
MAX_CLIPS_PER_COLLECTION == 5

\* The clips of step4_titles.json (and project.clips) as S5 reads them:
\* ids 1..n, each with its final_score in hundredths and with the theme its
\* title and summary match best in _pre_cluster_by_keywords, if any.
ClipScores == {90, 70, 50}
Themes == {"investment", "career"}

TitledClips(n) ==
    {[i \in 1..n |-> [id |-> i, final_score |-> sc[i], theme |-> th[i]]] :
        sc \in [1..n -> ClipScores], th \in [1..n -> Themes \cup {"none"}]}

ClipIds(clips) == {clips[i].id : i \in 1..Len(clips)}

\* the first at most MAX_CLIPS_PER_COLLECTION elements: seq[:MAX_CLIPS_PER_COLLECTION]
Truncated(seq) ==
    IF Len(seq) > MAX_CLIPS_PER_COLLECTION THEN SubSeq(seq, 1, MAX_CLIPS_PER_COLLECTION)
    ELSE seq

\* The lists of references a collection is asked with: every list of up to
\* two elements of refs, and the longer lists, up to one more than
\* MAX_CLIPS_PER_COLLECTION, that go round the elements of order.
ReferenceLists(refs, order) ==
    SeqsUpTo(refs, 2)
    \cup {[i \in 1..k |-> order[((i - 1) % Len(order)) + 1]] :
            k \in 3..(MAX_CLIPS_PER_COLLECTION + 1)}

\* One element of the array the LLM returns: a collection whose clips are
\* titles, each given by the id of the first clip the matching strategies
\* find for it (0: none); or an element that is skipped (no object, a field
\* missing, clips no list, a title that is no string).
CollectionEntries(n) ==
    {[kind |-> "collection", clips |-> c] : c \in ReferenceLists(0..n, [i \in 1..n |-> i])}
    \cup {[kind |-> "skipped", clips |-> <<>>]}

ClusterResponses(n) ==
    {[kind |-> k, collections |-> <<>>] : k \in {"none", "not_list"}}
    \cup {[kind |-> "list", collections |-> c] : c \in SeqsUpTo(CollectionEntries(n), MaxEntries)}

\* the ids of the clips found for the titles of one collection
Matched(clip_titles) == SelectSeq(clip_titles, LAMBDA m : m # 0)

RECURSIVE ValidateFrom(_, _)
ValidateFrom(i, collections) ==
    IF i > Len(collections) THEN <<>>
    ELSE LET valid_clip_ids == Matched(collections[i].clips) IN
         (IF collections[i].kind = "collection" /\ Len(valid_clip_ids) >= 2
          THEN <<[id |-> str(i), collection_title |-> "llm",
                  clip_ids |-> Truncated(valid_clip_ids)]>>
          ELSE <<>>)
         \o ValidateFrom(i + 1, collections)

validate_collections(collections_data, clips_with_titles) ==
    IF collections_data.kind # "list" THEN <<>>
    ELSE ValidateFrom(1, collections_data.collections)

\* validate_collections reads the ids and the titles of the clips, not their
\* scores or themes: one list of clips of each length is enough
UnscoredClips(n) == {[i \in 1..n |-> [id |-> i, final_score |-> 90, theme |-> "none"]]}

ApplyValidateCollections ==
    /\ call = NoCall
    /\ \E n \in 1..MaxItems : \E clips_with_titles \in UnscoredClips(n) :
       \E collections_data \in ClusterResponses(n) :
           call' = [fn |-> "validate_collections",
                    arg |-> [clips |-> clips_with_titles, request |-> collections_data],
                    out |-> validate_collections(collections_data, clips_with_titles)]
    /\ UNCHANGED beyondStages

\* _pre_cluster_by_keywords keeps the themes that at least two clips match
\* best; _create_collections_from_pre_clusters makes one collection of each
ThemeClips(clips, theme) ==
    LET matching == SelectSeq(clips, LAMBDA c : c.theme = theme) IN
        [i \in 1..Len(matching) |-> matching[i].id]

RECURSIVE PreClusterCollections(_, _, _)
PreClusterCollections(themes, collection_id, clips) ==
    IF themes = <<>> THEN <<>>
    ELSE LET clip_ids == ThemeClips(clips, Head(themes)) IN
         IF Len(clip_ids) >= 2
         THEN <<[id |-> str(collection_id), collection_title |-> Head(themes),
                 clip_ids |-> Truncated(clip_ids)]>>
              \o PreClusterCollections(Tail(themes), collection_id + 1, clips)
         ELSE PreClusterCollections(Tail(themes), collection_id, clips)

create_collections_from_pre_clusters(clips_with_titles) ==
    PreClusterCollections(<<"investment", "career">>, 1, clips_with_titles)

\* the score tiers: final_score >= 0.8, and 0.6 <= final_score < 0.8
create_default_collections(clips_with_titles) ==
    LET high_score == SelectSeq(clips_with_titles, LAMBDA c : c.final_score >= 80)
        medium_score == SelectSeq(clips_with_titles,
                                  LAMBDA c : c.final_score < 80 /\ c.final_score >= 60)
        ids(seq) == Truncated([i \in 1..Len(seq) |-> seq[i].id])
    IN  (IF Len(high_score) >= 2
         THEN <<[id |-> str(1), collection_title |-> "high_score",
                 clip_ids |-> ids(high_score)]>>
         ELSE <<>>)
        \o (IF Len(medium_score) >= 2
            THEN <<[id |-> str(2), collection_title |-> "medium_score",
                    clip_ids |-> ids(medium_score)]>>
            ELSE <<>>)

ApplyFallbackCollections ==
    /\ call = NoCall
    /\ \E n \in 1..MaxItems : \E clips_with_titles \in TitledClips(n) :
       \E fallback \in {"pre_clusters", "default"} :
           call' = [fn |-> fallback,
                    arg |-> [clips |-> clips_with_titles, request |-> <<>>],
                    out |-> IF fallback = "default"
                            THEN create_default_collections(clips_with_titles)
                            ELSE create_collections_from_pre_clusters(clips_with_titles)]
    /\ UNCHANGED beyondStages

\* cluster_clips: the LLM's collections are used only when at least three
\* of them pass the validation; with fewer the collections of the
\* pre-clusters replace them, however few those are.  The score tiers are
\* used when the response is empty, or when the call or the parser raises
\* and there is no pre-cluster.
MIN_LLM_COLLECTIONS == 3

\* What the LLM call of cluster_clips ends in: call_with_retry raises, the
\* response is empty, the parsed value is None or no list, or it is a list
\* of up to MIN_LLM_COLLECTIONS elements, each a collection of the first two
\* clips or an element that is skipped.
ClusterOutcomes(n) ==
    {[kind |-> k, collections |-> <<>>] : k \in {"raises", "empty", "none", "not_list"}}
    \cup {[kind |-> "list", collections |-> c] :
            c \in SeqsUpTo({[kind |-> "collection", clips |-> <<1, IF n > 1 THEN 2 ELSE 1>>],
                            [kind |-> "skipped", clips |-> <<>>]},
                           MIN_LLM_COLLECTIONS)}

cluster_clips(clips_with_titles, response) ==
    LET pre_clusters == create_collections_from_pre_clusters(clips_with_titles)
        validated_collections == validate_collections(response, clips_with_titles)
    IN  CASE response.kind = "empty" -> create_default_collections(clips_with_titles)
          [] response.kind = "raises" ->
                IF pre_clusters # <<>> THEN pre_clusters
                ELSE create_default_collections(clips_with_titles)
          [] OTHER ->
                IF Len(validated_collections) < MIN_LLM_COLLECTIONS THEN pre_clusters
                ELSE validated_collections

ApplyClusterClips ==
    /\ call = NoCall
    /\ \E n \in 1..MaxItems : \E clips_with_titles \in TitledClips(n) :
       \E response \in ClusterOutcomes(n) :
           call' = [fn |-> "cluster_clips",
                    arg |-> [clips |-> clips_with_titles, request |-> response],
                    out |-> cluster_clips(clips_with_titles, response)]
    /\ UNCHANGED beyondStages

\* POST /api/projects/{id}/collections for a project that exists: the
\* request names a title (possibly empty) and a list of clip ids, which may
\* hold an id no clip of the project has (n + 1).
CollectionRequests(n) ==
    [collection_title : {"title", ""},
     clip_ids : ReferenceLists(1..(n + 1), [i \in 1..n |-> i])]

create_collection(project_clips, collection_data) ==
    IF collection_data.collection_title = "" THEN [code |-> HTTP_BAD_REQUEST, created |-> <<>>]
    ELSE IF collection_data.clip_ids = <<>> THEN [code |-> HTTP_BAD_REQUEST, created |-> <<>>]
    ELSE IF \E i \in 1..Len(collection_data.clip_ids) :
                collection_data.clip_ids[i] \notin ClipIds(project_clips)
    THEN [code |-> HTTP_BAD_REQUEST, created |-> <<>>]
    ELSE [code |-> HTTP_OK,
          created |-> <<[id |-> <<0>>, collection_title |-> collection_data.collection_title,
                         clip_ids |-> collection_data.clip_ids]>>]

ApplyCreateCollection ==
    /\ call = NoCall
    /\ \E n \in 1..MaxItems : \E project_clips \in TitledClips(n) :
       \E collection_data \in CollectionRequests(n) :
           call' = [fn |-> "create_collection",
                    arg |-> [clips |-> project_clips, request |-> collection_data],
                    out |-> create_collection(project_clips, collection_data).created]
    /\ UNCHANGED beyondStages

\* ---- S6: step6_video.py and video_processor.py
MaxChars == 3        \* characters of a title given to sanitize_filename

\* A title is a sequence of characters: a letter, a blank, a dot, and one
\* of the characters < > : " | ? * \ / that sanitize_filename replaces.
Chars == {"a", " ", ".", "/"}
IllegalChars == {"/"}
MAX_FILENAME_LENGTH == 100

\* str.strip(' .')
RECURSIVE StripLeft(_)
StripLeft(text) ==
    IF text # <<>> /\ Head(text) \in {" ", "."} THEN StripLeft(Tail(text)) ELSE text

RECURSIVE StripRight(_)
StripRight(text) ==
    IF text # <<>> /\ text[Len(text)] \in {" ", "."}
    THEN StripRight(SubSeq(text, 1, Len(text) - 1))
    ELSE text

sanitize_filename(filename) ==
    LET replaced == [i \in 1..Len(filename) |->
                        IF filename[i] \in IllegalChars THEN "_" ELSE filename[i]]
        stripped == StripRight(StripLeft(replaced))
        limited == IF Len(stripped) > MAX_FILENAME_LENGTH
                   THEN SubSeq(stripped, 1, MAX_FILENAME_LENGTH) ELSE stripped
    IN  IF limited = <<>> THEN <<"untitled">> ELSE limited

ApplySanitizeFilename ==
    /\ call = NoCall
    /\ \E filename \in SeqsUpTo(Chars, MaxChars) :
           call' = [fn |-> "sanitize_filename", arg |-> filename,
                    out |-> sanitize_filename(filename)]
    /\ UNCHANGED beyondStages

\* The clips of step4_titles.json as S6 reads them, each with the title its
\* file is named after.
ClipTitles == {<<"a">>, <<"a", " ", "a">>}
CollectionTitle == <<"a", "/", "a">>

VideoClips(n) ==
    {[i \in 1..n |-> [id |-> i, generated_title |-> t[i]]] : t \in [1..n -> ClipTitles]}

\* The collections of step5_collections.json: one or two references each.
VideoCollections(n) ==
    {[collection_title |-> CollectionTitle, clip_ids |-> c] :
        c \in SeqsUpTo(1..n, 2) \ {<<>>}}

\* What running ffmpeg does: when it is not installed every invocation
\* raises; when it is, the cut of clip i and the concatenation of
\* collection j each end with return code 0 or with another one.
Ffmpegs(n) ==
    [installed : {TRUE}, cut : [1..n -> BOOLEAN], concat : [1..MaxEntries -> BOOLEAN]]
    \cup {[installed |-> FALSE, cut |-> [i \in 1..n |-> FALSE],
           concat |-> [j \in 1..MaxEntries |-> FALSE]]}

\* extract_clip and create_collection: True when the command returned 0,
\* False when it returned another code or when running it raised
extract_clip(ffmpeg, i) == ffmpeg.installed /\ ffmpeg.cut[i]

create_collection_video(ffmpeg, j) == ffmpeg.installed /\ ffmpeg.concat[j]

\* variant: the first cut that fails ends the batch
RestAfterCutAbort(succeeded, rest) == IF succeeded THEN rest ELSE <<>>

\* the clips that batch_extract_clips goes on with after a cut
RestAfterCut(succeeded, rest) == rest

\* one entry for every clip a cut was attempted for
RECURSIVE ExtractAttempts(_, _, _)
ExtractAttempts(clips_data, i, ffmpeg) ==
    IF i > Len(clips_data) THEN <<>>
    ELSE LET succeeded == extract_clip(ffmpeg, i)
             rest == RestAfterCut(succeeded, ExtractAttempts(clips_data, i + 1, ffmpeg))
         IN  <<[clip_id |-> clips_data[i].id,
                name |-> <<clips_data[i].id, "_">>
                         \o sanitize_filename(clips_data[i].generated_title),
                succeeded |-> succeeded]>> \o rest

batch_extract_clips(clips_data, ffmpeg) ==
    SelectSeq(ExtractAttempts(clips_data, 1, ffmpeg), LAMBDA at : at.succeeded)

\* variant: the files are listed in the order of their names
ListedClipsByName(clip_ids, clip_files) ==
    LET found == SelectSeq(clip_ids, LAMBDA id : id \in clip_files) IN
        SortByKey(found, found)

\* the files glob finds for the clip ids, in the order of the clip ids
ListedClips(clip_ids, clip_files) == SelectSeq(clip_ids, LAMBDA id : id \in clip_files)

\* one entry for every collection a concatenation was attempted for;
\* clip_files: the ids for which clips_dir holds a file <id>_*.mp4
RECURSIVE ConcatAttempts(_, _, _, _)
ConcatAttempts(collections_data, j, clip_files, ffmpeg) ==
    IF j > Len(collections_data) THEN <<>>
    ELSE LET clips_list == ListedClips(collections_data[j].clip_ids, clip_files)
             rest == ConcatAttempts(collections_data, j + 1, clip_files, ffmpeg)
         IN  IF clips_list = <<>> THEN rest
             ELSE <<[collection |-> j,
                     name |-> sanitize_filename(collections_data[j].collection_title),
                     clips_list |-> clips_list,
                     succeeded |-> create_collection_video(ffmpeg, j)]>> \o rest

create_collections_from_metadata(collections_data, clip_files, ffmpeg) ==
    SelectSeq(ConcatAttempts(collections_data, 1, clip_files, ffmpeg), LAMBDA at : at.succeeded)

\* readable: the two input files of the stage can be loaded; earlier: the
\* ids for which an earlier run of the stage left a clip file
run_step6_video(readable, clips_with_titles, collections_data, earlier, ffmpeg) ==
    IF ~readable
    THEN [raised |-> TRUE, cuts |-> <<>>, concats |-> <<>>,
          clip_paths |-> <<>>, collection_paths |-> <<>>]
    ELSE LET successful_clips == batch_extract_clips(clips_with_titles, ffmpeg)
             clip_files == earlier \cup {successful_clips[i].clip_id :
                                            i \in 1..Len(successful_clips)}
         IN  [raised |-> FALSE,
              cuts |-> ExtractAttempts(clips_with_titles, 1, ffmpeg),
              concats |-> ConcatAttempts(collections_data, 1, clip_files, ffmpeg),
              clip_paths |-> successful_clips,
              collection_paths |->
                  create_collections_from_metadata(collections_data, clip_files, ffmpeg)]

ApplyStep6 ==
    /\ call = NoCall
    /\ \E n \in 1..MaxItems : \E clips_with_titles \in VideoClips(n) :
       \E collections_data \in SeqsUpTo(VideoCollections(n), MaxEntries) :
       \E ffmpeg \in Ffmpegs(n), rerun \in BOOLEAN, readable \in BOOLEAN :
           /\ ~readable => (~rerun /\ ~ffmpeg.installed /\ n = 1 /\ collections_data = <<>>)
           /\ LET earlier == IF rerun THEN 1..n ELSE {} IN
              call' = [fn |-> "run_step6_video",
                       arg |-> [readable |-> readable, clips |-> clips_with_titles,
                                collections |-> collections_data, earlier |-> earlier,
                                ffmpeg |-> ffmpeg],
                       out |-> run_step6_video(readable, clips_with_titles,
                                               collections_data, earlier, ffmpeg)]
    /\ UNCHANGED beyondStages

\* ---- the LLM gateway: llm_client.py (siliconflow_client.py has the same
\* call_with_retry)
MaxRetries == 3      \* the largest max_retries a caller passes (default 3)

\* What the provider does on one attempt: the request does not get through,
\* the status is not OK (with or without the message "Invalid ApiKey"), or
\* the status is OK and the output has a text or has none.
ProviderResponses == {"transport_error", "server_error", "invalid_key", "ok_text", "ok_no_text"}

\* variant: a response with status OK and no text raises like a failed request
llm_callEmptyRaises(api_key_set, response) ==
    IF ~api_key_set THEN [kind |-> "ValueError", value |-> "none"]
    ELSE CASE response = "ok_text" -> [kind |-> "return", value |-> "text"]
           [] response = "invalid_key" -> [kind |-> "ValueError", value |-> "none"]
           [] OTHER -> [kind |-> "Exception", value |-> "none"]

\* LLMClient.call: what one attempt returns or raises
llm_call(api_key_set, response) ==
    IF ~api_key_set THEN [kind |-> "ValueError", value |-> "none"]
    ELSE CASE response = "ok_text" -> [kind |-> "return", value |-> "text"]
           [] response = "ok_no_text" -> [kind |-> "return", value |-> ""]
           [] response = "invalid_key" -> [kind |-> "ValueError", value |-> "none"]
           [] OTHER -> [kind |-> "Exception", value |-> "none"]

\* variant: the same wait before every retry
WaitTimeConstant(attempt) == 1

\* wait_time = 2 ** attempt
WaitTime(attempt) == 2 ^ attempt

\* attempts count from 0; waits: the sleeps made so far, in seconds
RECURSIVE RetryFrom(_, _, _, _, _)
RetryFrom(api_key_set, responses, max_retries, attempt, waits) ==
    IF attempt >= max_retries
    THEN [kind |-> "return", value |-> "", attempts |-> attempt, waits |-> waits]
    ELSE LET result == llm_call(api_key_set, responses[attempt + 1]) IN
         CASE result.kind = "return" ->
                [kind |-> "return", value |-> result.value,
                 attempts |-> attempt + 1, waits |-> waits]
           [] result.kind = "ValueError" ->
                [kind |-> "ValueError", value |-> "none",
                 attempts |-> attempt + 1, waits |-> waits]
           [] OTHER ->
                IF attempt = max_retries - 1
                THEN [kind |-> "Exception", value |-> "none",
                      attempts |-> attempt + 1, waits |-> waits]
                ELSE RetryFrom(api_key_set, responses, max_retries, attempt + 1,
                               Append(waits, WaitTime(attempt)))

call_with_retry(api_key_set, responses, max_retries) ==
    RetryFrom(api_key_set, responses, max_retries, 0, <<>>)

ApplyCallWithRetry ==
    /\ call = NoCall
    /\ \E max_retries \in 1..MaxRetries, api_key_set \in BOOLEAN :
       \E responses \in [1..max_retries -> ProviderResponses] :
           call' = [fn |-> "call_with_retry",
                    arg |-> [api_key_set |-> api_key_set, responses |-> responses,
                             max_retries |-> max_retries],
                    out |-> call_with_retry(api_key_set, responses, max_retries)]
    /\ UNCHANGED beyondStages

\* ---- TextProcessor.time_to_seconds and seconds_to_time, to the millisecond
\* A time string "HH:MM:SS,mmm" is the tuple of its four fields; the string
\* "HH:MM:SS" that seconds_to_time formats is the tuple of its three.
\* Seconds are counted in thousandths, so that the float is exact.
HourFields == {0, 1}
SixtyFields == {0, 1, 59}
MilliFields == {0, 500, 999}

SrtTimes == {<<h, m, sec, ms>> : h \in HourFields, m \in SixtyFields,
                                 sec \in SixtyFields, ms \in MilliFields}

\* h * 3600 + m * 60 + s + ms / 1000.0, in thousandths of a second
TimeToSeconds(time_str) ==
    (time_str[1] * 3600 + time_str[2] * 60 + time_str[3]) * 1000 + time_str[4]

\* f"{hours:02d}:{minutes:02d}:{secs:02d}" of int(seconds // 3600),
\* int((seconds % 3600) // 60) and int(seconds % 60)
seconds_to_time(thousandths) ==
    <<thousandths \div 3600000,
      (thousandths % 3600000) \div 60000,
      (thousandths % 60000) \div 1000>>

ApplyTimeRoundTrip ==
    /\ call = NoCall
    /\ \E time_str \in SrtTimes :
           call' = [fn |-> "seconds_to_time", arg |-> time_str,
                    out |-> seconds_to_time(TimeToSeconds(time_str))]
    /\ UNCHANGED beyondStages

\* ---- retry_with_backoff of utils/error_handler.py
\* RetryConfig's defaults
BASE_DELAY == 1
EXPONENTIAL_BASE == 2
MAX_DELAY == 60

\* What one invocation of the wrapped function does: it returns, it raises
\* one of config.retryable_exceptions, or it raises another exception.
Invocations == {"returns", "retryable", "other"}

\* the wrapped function: what its successive invocations do
Behaviours == [1..(MaxRetries + 1) -> Invocations]

\* min(base_delay * exponential_base ** attempt, max_delay)
Delay(attempt) ==
    IF BASE_DELAY * (EXPONENTIAL_BASE ^ attempt) < MAX_DELAY
    THEN BASE_DELAY * (EXPONENTIAL_BASE ^ attempt)
    ELSE MAX_DELAY

\* variant: the loop makes one pass fewer
LoopPassesShort(max_retries) == max_retries

\* range(config.max_retries + 1)
LoopPasses(max_retries) == max_retries + 1

\* The wrapper from pass `attempt` of its loop on, `slept` being the delays
\* slept so far. It reports how many times func was invoked, the invocation
\* whose result was returned (0: none), the invocation whose exception
\* reached the caller (0: none) and the delays slept.
RECURSIVE WrapperFrom(_, _, _, _)
WrapperFrom(attempt, max_retries, func, slept) ==
    IF attempt >= LoopPasses(max_retries)
    THEN \* if last_exception: raise last_exception
         [invoked |-> attempt, returned |-> 0, raised |-> attempt, slept |-> slept]
    ELSE CASE func[attempt + 1] = "returns" ->
                [invoked |-> attempt + 1, returned |-> attempt + 1, raised |-> 0,
                 slept |-> slept]
           [] func[attempt + 1] = "other" ->
                [invoked |-> attempt + 1, returned |-> 0, raised |-> attempt + 1,
                 slept |-> slept]
           [] OTHER ->
                IF attempt = max_retries
                THEN [invoked |-> attempt + 1, returned |-> 0, raised |-> attempt + 1,
                      slept |-> slept]
                ELSE WrapperFrom(attempt + 1, max_retries, func,
                                 Append(slept, Delay(attempt)))

retry_with_backoff(max_retries, func) == WrapperFrom(0, max_retries, func, <<>>)

ApplyRetryWithBackoff ==
    /\ call = NoCall
    /\ \E max_retries \in 0..MaxRetries, func \in Behaviours :
           call' = [fn |-> "retry_with_backoff",
                    arg |-> [max_retries |-> max_retries, func |-> func],
                    out |-> retry_with_backoff(max_retries, func)]
    /\ UNCHANGED beyondStages

\* ---- VideoProcessor.create_collection and its concat_list.txt
\* How one concat goes: mkdir raises; open of the list file raises; a write
\* to the list raises; subprocess.run raises (no ffmpeg executable); ffmpeg
\* exits non-zero; ffmpeg exits 0.
ConcatRuns == {"mkdir_raises", "open_raises", "write_raises", "launch_raises",
               "nonzero", "zero"}

\* whether concat_list.txt exists when create_collection returns, `before`
\* telling whether it existed when it was called: open creates it, unlink
\* is reached only when subprocess.run has returned, and the except branch
\* removes nothing
ListFileAfter(before, concat_run) ==
    CASE concat_run \in {"mkdir_raises", "open_raises"} -> before
      [] concat_run \in {"write_raises", "launch_raises"} -> TRUE
      [] OTHER -> FALSE

\* what create_collection returns
ConcatResult(concat_run) == concat_run = "zero"

ApplyConcat ==
    /\ call = NoCall
    /\ \E before \in BOOLEAN, concat_run \in ConcatRuns :
           call' = [fn |-> "create_collection_video",
                    arg |-> [list_file |-> before, run |-> concat_run],
                    out |-> [returned |-> ConcatResult(concat_run),
                             list_file |-> ListFileAfter(before, concat_run)]]
    /\ UNCHANGED beyondStages

\* ---- the title matcher of ClusteringEngine._validate_collections
\* Titles are sequences of characters over two letters, a capital, a blank
\* and a full stop.  No title here holds a quote or a character that NFKC
\* changes, so the removal of enclosing quotes and unicodedata.normalize
\* leave every one of them as it is.
TitleTexts == {<<"a">>, <<"a", "b">>, <<"b">>, <<"a", ".">>, <<"A">>, <<" ", "b">>}
OutlineTexts == {<<"c">>, <<"a">>, <<"b", "c">>}

\* str.strip()
RECURSIVE strip(_)
strip(text) ==
    IF text # <<>> /\ Head(text) = " " THEN strip(Tail(text))
    ELSE IF text # <<>> /\ text[Len(text)] = " "
    THEN strip(SubSeq(text, 1, Len(text) - 1))
    ELSE text

\* remove_punctuation: punctuation marks and white space are deleted
remove_punctuation(text) == strip(SelectSeq(text, LAMBDA c : c \notin {".", " "}))

\* str.lower()
lower(text) == [i \in 1..Len(text) |-> IF text[i] = "A" THEN "a" ELSE text[i]]

\* normalize_text: re.sub(r'[^\w\s]', '', text).strip().lower()
normalize_text(text) == lower(strip(SelectSeq(text, LAMBDA c : c # ".")))

\* a in b, for strings
IsIn(a, b) == \E i \in 1..(Len(b) - Len(a) + 1) : SubSeq(b, i, i + Len(a) - 1) = a

\* the four strategies, tried on one clip
MatchesClip(clip_title, clip) ==
    LET cleaned_clip_title == strip(clip_title)
        cleaned_generated_title == strip(clip.generated_title)
        cleaned_outline == strip(clip.outline)
        no_punct_clip_title == remove_punctuation(cleaned_clip_title)
        no_punct_generated_title == remove_punctuation(cleaned_generated_title)
        no_punct_outline == remove_punctuation(cleaned_outline)
    IN  \/ cleaned_clip_title = cleaned_generated_title
        \/ cleaned_clip_title = cleaned_outline
        \/ no_punct_clip_title = no_punct_generated_title
        \/ no_punct_clip_title = no_punct_outline
        \/ IsIn(no_punct_clip_title, no_punct_generated_title)
        \/ IsIn(no_punct_generated_title, no_punct_clip_title)
        \/ IsIn(no_punct_clip_title, no_punct_outline)
        \/ IsIn(no_punct_outline, no_punct_clip_title)
        \/ normalize_text(cleaned_clip_title) = normalize_text(cleaned_generated_title)
        \/ normalize_text(cleaned_clip_title) = normalize_text(cleaned_outline)

\* found_clip['id']: the first clip of the list that some strategy matches
\* (0: found_clip stays None)
RECURSIVE FoundClipFrom(_, _, _)
FoundClipFrom(i, clip_title, clips_with_titles) ==
    IF i > Len(clips_with_titles) THEN 0
    ELSE IF MatchesClip(clip_title, clips_with_titles[i]) THEN clips_with_titles[i].id
    ELSE FoundClipFrom(i + 1, clip_title, clips_with_titles)

found_clip(clip_title, clips_with_titles) == FoundClipFrom(1, clip_title, clips_with_titles)

ApplyFoundClip ==
    /\ call = NoCall
    /\ \E first \in [generated_title : TitleTexts, outline : OutlineTexts],
          second \in [generated_title : TitleTexts, outline : OutlineTexts],
          clip_title \in TitleTexts :
         LET clips_with_titles ==
                 << [id |-> 1, generated_title |-> first.generated_title,
                     outline |-> first.outline],
                    [id |-> 2, generated_title |-> second.generated_title,
                     outline |-> second.outline] >>
         IN  call' = [fn |-> "found_clip",
                      arg |-> [clip_title |-> clip_title, clips |-> clips_with_titles],
                      out |-> found_clip(clip_title, clips_with_titles)]
    /\ UNCHANGED beyondStages

\* The function has returned and its caller has moved on: the next
\* application starts from a fresh call.
StageReturns ==
    /\ call # NoCall
    /\ call' = NoCall
    /\ UNCHANGED beyondStages

StagesNext ==
    \/ ApplyChunkSrtData
    \/ ApplyParseAndValidate
    \/ ApplyChunkLoop
    \/ ApplyExtractTimeline
    \/ ApplyStep3
    \/ ApplyStep4
    \/ ApplyValidateCollections
    \/ ApplyFallbackCollections
    \/ ApplyClusterClips
    \/ ApplyCreateCollection
    \/ ApplySanitizeFilename
    \/ ApplyStep6
    \/ ApplyCallWithRetry
    \/ ApplyTimeRoundTrip
    \/ ApplyRetryWithBackoff
    \/ ApplyConcat
    \/ ApplyFoundClip
    \/ StageReturns

InitStages == Init /\ max_concurrent_processing = 1

SpecStages == InitStages /\ [][StagesNext]_vars

----------------------------------------------------------------------------
(***************************************************************************)
(* The circuit breaker of utils/error_handler.py: one CircuitBreaker       *)
(* object, the functions passed to its call method, and the wall clock.    *)
(***************************************************************************)
MaxThreshold == 2       \* failure_threshold is drawn from 1..MaxThreshold
MaxTimeout == 2         \* recovery_timeout is drawn from 1..MaxTimeout
MaxClock == 5           \* time.time() runs from 1 to MaxClock
MaxFailures == 3        \* no further failure is counted once failure_count is here

\* the classes expected_exception is drawn from
ExceptionClasses == {"Exception", "ValueError"}

\* the functions passed to call: one that returns "success", two that raise
Funcs == {"success_func", "ValueError", "KeyError"}

\* the exception func raises ("none": it returns)
Raises(func) == IF func = "success_func" THEN "none" ELSE func

\* except self.expected_exception: isinstance of the class or of a subclass
Expected(exc, expected_exception) ==
    expected_exception = "Exception" \/ exc = expected_exception

\* CircuitBreaker.__init__
CircuitBreakerInit(failure_threshold, recovery_timeout, expected_exception) ==
    [failure_threshold |-> failure_threshold, recovery_timeout |-> recovery_timeout,
     expected_exception |-> expected_exception,
     failure_count |-> 0, last_failure_time |-> 0, state |-> "CLOSED"]

\* ErrorHandler.get_circuit_breaker, the first time the name is asked for
get_circuit_breaker ==
    /\ breaker = NoBreaker
    /\ \E failure_threshold \in 1..MaxThreshold, recovery_timeout \in 1..MaxTimeout,
          expected_exception \in ExceptionClasses :
           breaker' = CircuitBreakerInit(failure_threshold, recovery_timeout,
                                         expected_exception)
    /\ UNCHANGED <<clock, outcome, beyondBreaker>>

\* variant: the breaker opens one failure late
ReachedThresholdLate(failure_count, failure_threshold) ==
    failure_count > failure_threshold

\* if self.failure_count >= self.failure_threshold
ReachedThreshold(failure_count, failure_threshold) ==
    failure_count >= failure_threshold

\* variant: a successful trial closes the breaker and keeps the count
TrialSucceededKeepsCount(b) == [b EXCEPT !.state = "CLOSED"]

\* if self.state == "HALF_OPEN": self.state = "CLOSED"; self.failure_count = 0
TrialSucceeded(b) == [b EXCEPT !.state = "CLOSED", !.failure_count = 0]

\* the head of call: an OPEN breaker whose last failure is more than
\* recovery_timeout old becomes HALF_OPEN; a younger one rejects the call
Admitted(b, now) ==
    IF b.state = "OPEN" /\ now - b.last_failure_time > b.recovery_timeout
    THEN [b EXCEPT !.state = "HALF_OPEN"]
    ELSE b

\* variant: a call made exactly recovery_timeout after the failure is let through
RejectsYounger(b, now) ==
    b.state = "OPEN" /\ now - b.last_failure_time < b.recovery_timeout

Rejects(b, now) ==
    b.state = "OPEN" /\ ~(now - b.last_failure_time > b.recovery_timeout)

\* the except clause: count the failure, stamp it, open at the threshold
Failed(b, now) ==
    LET counted == [b EXCEPT !.failure_count = @ + 1, !.last_failure_time = now]
    IN  IF ReachedThreshold(counted.failure_count, counted.failure_threshold)
        THEN [counted EXCEPT !.state = "OPEN"]
        ELSE counted

\* the breaker after call(func) at time now
AfterCall(b, func, now) ==
    IF Rejects(b, now) THEN b
    ELSE LET a == Admitted(b, now)
         IN  IF Raises(func) = "none"
             THEN IF a.state = "HALF_OPEN" THEN TrialSucceeded(a) ELSE a
             ELSE IF Expected(Raises(func), a.expected_exception)
                  THEN Failed(a, now)
                  ELSE a

\* what the caller of call(func) gets at time now
Reported(b, func, now) ==
    IF Rejects(b, now)
    THEN [func |-> func, found |-> b.state, executed |-> FALSE,
          raised |-> "AutoClipsException", result |-> "none"]
    ELSE [func |-> func, found |-> b.state, executed |-> TRUE,
          raised |-> Raises(func),
          result |-> IF Raises(func) = "none" THEN "success" ELSE "none"]

\* CircuitBreaker.call(func)
CircuitBreakerCall(func) ==
    /\ breaker # NoBreaker
    /\ outcome = NoOutcome
    /\ Raises(func) # "none" => breaker.failure_count < MaxFailures
    /\ breaker' = AfterCall(breaker, func, clock)
    /\ outcome' = Reported(breaker, func, clock)
    /\ UNCHANGED <<clock, beyondBreaker>>

\* the caller has dealt with what call returned or raised
BreakerReturns ==
    /\ outcome # NoOutcome
    /\ outcome' = NoOutcome
    /\ UNCHANGED <<breaker, clock, beyondBreaker>>

\* a second passes
Tick ==
    /\ clock < MaxClock
    /\ clock' = clock + 1
    /\ UNCHANGED <<breaker, outcome, beyondBreaker>>

BreakerNext ==
    \/ get_circuit_breaker
    \/ \E func \in Funcs : CircuitBreakerCall(func)
    \/ BreakerReturns
    \/ Tick

InitBreaker == Init /\ max_concurrent_processing = 1

SpecBreaker == InitBreaker /\ [][BreakerNext]_vars

\* C16: when the array the LLM returns for a chunk has another length than
\* the chunk has items, every item of the chunk is in the scored output with
\* final_score 0 and the batch-failure reason: none is dropped.
C16_MismatchKeepsChunk ==
    call.fn = "run_step3_scoring" =>
        \A c \in ChunkIndexes :
            LET chunk_items == ItemsOfChunk(call.arg.timeline_data, c) IN
            (/\ call.arg.llm[c].kind = "list"
             /\ Len(call.arg.llm[c].entries) # Len(chunk_items))
                => \A i \in 1..Len(chunk_items) :
                       Scored(chunk_items[i], 0, "batch_failed") \in Range(call.out.all_scored)

\* C17: after S4 every clip of step3_high_score_clips.json is in
\* step4_titles.json with a non-empty generated_title, whatever the LLM
\* answered (missing or malformed entry, no mapping, empty response,
\* exception).
C17_EveryClipTitled ==
    call.fn = "generate_titles" =>
        \A i \in 1..Len(call.arg.high_score_clips) :
            \E j \in 1..Len(call.out) :
                /\ call.out[j].id = call.arg.high_score_clips[i].id
                /\ call.out[j].generated_title \notin {"unset", ""}

\* C18: every item S2 emits for a chunk starts no earlier than the chunk,
\* ends no later than the chunk, and starts before it ends, whatever
\* well-formed time strings the LLM returned.
C18_ItemWithinChunk ==
    call.fn = "parse_and_validate_response" =>
        \A i \in 1..Len(call.out) :
            /\ time_to_seconds(call.out[i].start_time)
                  >= time_to_seconds(call.arg.chunk.start_time)
            /\ time_to_seconds(call.out[i].end_time)
                  <= time_to_seconds(call.arg.chunk.end_time)
            /\ time_to_seconds(call.out[i].start_time)
                  < time_to_seconds(call.out[i].end_time)

\* C19: after S2 the ids of the N items of step2_timeline.json are "1".."N"
\* in list order, and start_time does not decrease along the list.
C19_IdsInStartOrder ==
    call.fn = "extract_timeline" =>
        \A i \in 1..Len(call.out) :
            /\ call.out[i].id = str(i)
            /\ i < Len(call.out) =>
                   time_to_seconds(call.out[i].start_time)
                      <= time_to_seconds(call.out[i + 1].start_time)

\* the sort has moved an item of the second chunk before one of the first
C19_Witness ==
    /\ call.fn = "extract_timeline"
    /\ Len(call.out) = 2
    /\ call.out[1].chunk_index = 1
    /\ call.out[2].chunk_index = 0
    /\ call.out[2].id = <<2>>

\* C20: every collection, made by S5 from the LLM's answer, from the
\* pre-clusters or from the score tiers, or created by a request, references
\* at least 2 and at most MAX_CLIPS_PER_COLLECTION clip ids, each the id of
\* an existing titled clip.
C20_CollectionSize ==
    call.fn \in {"validate_collections", "pre_clusters", "default", "create_collection"} =>
        \A i \in 1..Len(call.out) :
            /\ Len(call.out[i].clip_ids) >= 2
            /\ Len(call.out[i].clip_ids) <= MAX_CLIPS_PER_COLLECTION
            /\ Range(call.out[i].clip_ids) \subseteq ClipIds(call.arg.clips)

\* C21: when the LLM of S5 returns a single collection whose two clip titles
\* resolve to the two existing titled clips, that collection is in the
\* output of S5 (from which S6 makes its file).
C21_SingleCollectionKept ==
    (/\ call.fn = "cluster_clips"
     /\ Len(call.arg.clips) = 2
     /\ call.arg.request.kind = "list"
     /\ Len(call.arg.request.collections) = 1
     /\ call.arg.request.collections[1] = [kind |-> "collection", clips |-> <<1, 2>>])
        => \E i \in 1..Len(call.out) :
               /\ call.out[i].collection_title = "llm"
               /\ call.out[i].clip_ids = <<1, 2>>

\* the cues of the chunks, one chunk after the other
RECURSIVE Concatenated(_)
Concatenated(chunks) ==
    IF chunks = <<>> THEN <<>>
    ELSE Head(chunks).srt_entries \o Concatenated(Tail(chunks))

\* C22: the chunks partition the cue list: their cue lists, taken in
\* chunk_index order, make up the input list exactly, and no chunk is empty.
C22_ChunksPartition ==
    call.fn = "chunk_srt_data" =>
        /\ Concatenated(call.out) = call.arg
        /\ \A k \in 1..Len(call.out) :
               /\ call.out[k].chunk_index = k - 1
               /\ call.out[k].srt_entries # <<>>

\* a list of three cues cut after a pause into a chunk of two and a chunk of one
C22_Witness ==
    /\ call.fn = "chunk_srt_data"
    /\ Len(call.out) = 2
    /\ Len(call.out[1].srt_entries) = 2
    /\ Len(call.out[2].srt_entries) = 1

\* C23: for every collection S6 produces, the files listed for the
\* concatenation follow the order of the collection's clip_ids: the list is
\* the clip_ids with the ids that are not listed left out.
C23_ConcatInClipOrder ==
    (call.fn = "run_step6_video" /\ ~call.out.raised) =>
        \A k \in 1..Len(call.out.collection_paths) :
            LET made == call.out.collection_paths[k]
                clip_ids == call.arg.collections[made.collection].clip_ids
            IN  made.clips_list
                    = SelectSeq(clip_ids, LAMBDA id : id \in Range(made.clips_list))

\* a collection that references clip 2 before clip 1 has been produced from
\* both files
C23_Witness ==
    /\ call.fn = "run_step6_video"
    /\ Len(call.out.collection_paths) >= 1
    /\ call.out.collection_paths[1].clips_list = <<2, 1>>

C25_MissingFfmpegFailsStage ==
    (call.fn = "run_step6_video" /\ ~call.arg.ffmpeg.installed) => call.out.raised

\* what an attempt of the recorded call did
AttemptResult(k) == llm_call(call.arg.api_key_set, call.arg.responses[k + 1])

C27_EmptyOutputRetried ==
    (/\ call.fn = "call_with_retry"
     /\ call.arg.api_key_set
     /\ call.arg.max_retries > 1
     /\ call.arg.responses[1] = "ok_no_text")
        => (call.out.attempts > 1 /\ call.out.waits # <<>>)

\* C27 as the code has it: a response with status OK and no text ends
\* call_with_retry; the empty string is returned at once, with no wait and
\* no further attempt, and the empty string is returned in no other case.
C27_EmptyOutputReturned ==
    (call.fn = "call_with_retry" /\ call.arg.api_key_set) =>
        /\ call.arg.responses[call.out.attempts] = "ok_no_text"
               <=> (call.out.kind = "return" /\ call.out.value = "")
        /\ call.arg.responses[1] = "ok_no_text"
               => (call.out.attempts = 1 /\ call.out.waits = <<>>)

\* the first of three attempts allowed gets a response with no text, and
\* the call returns the empty string after that attempt
C27_Witness ==
    /\ call.fn = "call_with_retry"
    /\ call.arg.api_key_set
    /\ call.arg.max_retries = 3
    /\ call.arg.responses[1] = "ok_no_text"
    /\ call.out.attempts = 1
    /\ call.out.value = ""

\* C28: the time conversion round-trips to the millisecond: formatting the
\* seconds of a valid time string gives the string back.
C28_TimeRoundTrip ==
    call.fn = "seconds_to_time" => call.out = call.arg

\* a step that is one CircuitBreaker.call
CallStep == outcome = NoOutcome /\ outcome' # NoOutcome

\* C29: a CircuitBreaker starts CLOSED with failure_count 0; it is CLOSED
\* while failure_count is below failure_threshold; a call on a CLOSED
\* breaker leaves it OPEN exactly when that call brings failure_count to
\* failure_threshold; and a call whose function raises gives the caller
\* that same exception.
C29_BreakerOpensAtThreshold ==
    [][ /\ breaker = NoBreaker /\ breaker' # NoBreaker
            => breaker'.state = "CLOSED" /\ breaker'.failure_count = 0
        /\ breaker'.state # "none" /\ breaker'.failure_count < breaker'.failure_threshold
            => breaker'.state = "CLOSED"
        /\ CallStep /\ breaker.state = "CLOSED"
            => (breaker'.state = "OPEN"
                  <=> /\ breaker'.failure_count = breaker.failure_count + 1
                      /\ breaker'.failure_count = breaker.failure_threshold)
        /\ CallStep /\ outcome'.executed /\ Raises(outcome'.func) # "none"
            => outcome'.raised = Raises(outcome'.func)
      ]_vars

\* the second of two counted failures has opened a breaker of threshold 2
C29_Witness ==
    /\ breaker.failure_threshold = 2
    /\ breaker.failure_count = 2
    /\ breaker.state = "OPEN"
    /\ outcome.found = "CLOSED"
    /\ outcome.raised = "ValueError"

\* C30: a call on an OPEN breaker made more than recovery_timeout seconds
\* after the last recorded failure runs the function; if the function
\* returns, the breaker is CLOSED with failure_count 0 and the caller gets
\* the function's result.
C30_TrialAfterTimeout ==
    [][ CallStep /\ breaker.state = "OPEN"
          /\ clock - breaker.last_failure_time > breaker.recovery_timeout
            => /\ outcome'.executed
               /\ Raises(outcome'.func) = "none"
                    => /\ breaker'.state = "CLOSED"
                       /\ breaker'.failure_count = 0
                       /\ outcome'.raised = "none"
                       /\ outcome'.result = "success"
      ]_vars

\* a trial on an OPEN breaker has succeeded and closed it
C30_Witness ==
    /\ outcome.found = "OPEN"
    /\ outcome.executed
    /\ outcome.result = "success"
    /\ breaker.state = "CLOSED"
    /\ breaker.failure_count = 0

\* C39: a call on an OPEN breaker made no more than recovery_timeout seconds
\* after the last recorded failure raises the rejection error, does not run
\* the function, and leaves state, failure_count and last_failure_time as
\* they were.
C39_OpenBreakerRejects ==
    [][ CallStep /\ breaker.state = "OPEN"
          /\ clock - breaker.last_failure_time <= breaker.recovery_timeout
            => /\ ~outcome'.executed
               /\ outcome'.raised = "AutoClipsException"
               /\ breaker'.state = breaker.state
               /\ breaker'.failure_count = breaker.failure_count
               /\ breaker'.last_failure_time = breaker.last_failure_time
      ]_vars

\* a call has been rejected exactly recovery_timeout after the failure
C39_Witness ==
    /\ outcome.found = "OPEN"
    /\ ~outcome.executed
    /\ outcome.raised = "AutoClipsException"
    /\ breaker.state = "OPEN"
    /\ clock - breaker.last_failure_time = breaker.recovery_timeout

\* C40: a call on a CLOSED breaker whose function returns leaves
\* failure_count at 0, so that only consecutive failures open the breaker.
C40_SuccessResetsCount ==
    [][ CallStep /\ breaker.state = "CLOSED" /\ Raises(outcome'.func) = "none"
            => breaker'.failure_count = 0
      ]_vars

\* C31: a function wrapped by retry_with_backoff is invoked at most
\* max_retries + 1 times; when an invocation returns after retryable
\* failures only, that result is returned and the function is not invoked
\* again; when max_retries + 1 invocations all raise a retryable exception,
\* the function has been invoked max_retries + 1 times and the caller gets
\* the exception of the last one.
C31_RetryBounded ==
    call.fn = "retry_with_backoff" =>
        LET n == call.arg.max_retries + 1
            func == call.arg.func
        IN  /\ call.out.invoked <= n
            /\ \A k \in 1..n :
                   /\ func[k] = "returns"
                   /\ \A j \in 1..(k - 1) : func[j] = "retryable"
                   => call.out.returned = k /\ call.out.invoked = k /\ call.out.raised = 0
            /\ (\A k \in 1..n : func[k] = "retryable")
                   => call.out.invoked = n /\ call.out.raised = n /\ call.out.returned = 0

\* three retryable failures under max_retries = 2: the wrapper gave up
C31_Witness ==
    /\ call.fn = "retry_with_backoff"
    /\ call.arg.max_retries = 2
    /\ \A k \in 1..3 : call.arg.func[k] = "retryable"
    /\ call.out.invoked = 3
    /\ call.out.raised = 3

\* C32: a retry request rejected as busy (429) leaves the project as it was:
\* its record (status error, the error message) and its progress snapshot
\* (the failed stage) are unchanged.
C32_BusyRetryLeavesProject ==
    [][\A p \in Projects :
         (/\ projects[p].status = "error"
          /\ last' = Step("retry", p, HTTP_TOO_MANY))
             => /\ projects'[p] = projects[p]
                /\ processing_status'[p] = processing_status[p]
      ]_vars

\* C37: once the workers of a deleted project have exited, the progress
\* snapshots hold no entry with status processing for it, so the system
\* status does not list it.
C37_DeletedNotListed ==
    \A p \in Projects :
        (projects[p].life = "deleted" /\ Workers(p) = 0)
            => ~(processing_status[p].present
                 /\ processing_status[p].status = "processing")

\* C33: when the LLM has answered and its output yields fewer than 3 valid
\* collections, S5 returns the keyword pre-cluster collections; when those are none as
\* well, it returns the score-tier buckets.
C33_FallbackChain ==
    (/\ call.fn = "cluster_clips"
     /\ call.arg.request.kind \notin {"raises", "empty"}
     /\ Len(validate_collections(call.arg.request, call.arg.clips)) < MIN_LLM_COLLECTIONS)
        => call.out =
              IF create_collections_from_pre_clusters(call.arg.clips) # <<>>
              THEN create_collections_from_pre_clusters(call.arg.clips)
              ELSE create_default_collections(call.arg.clips)

\* C34: for one chunk S2 makes at most 3 requests; a request that follows a
\* response with no validated item carries the strict-JSON instruction; the
\* loop stops at the first pass that yields validated items; and three
\* responses with no validated item make three requests.
C34_ChunkRetries ==
    call.fn = "chunk_loop" =>
        LET attempts == call.arg
            passes == 1..(MAX_PARSE_RETRIES + 1)
        IN  /\ call.out.requests <= MAX_PARSE_RETRIES + 1
            /\ \A k \in 2..call.out.requests :
                   attempts[k - 1] = "unparsed" => call.out.prompts[k]
            /\ \A k \in passes :
                   (/\ attempts[k] = "items"
                    /\ \A j \in 1..(k - 1) : attempts[j] \in {"unparsed", "raises"})
                   => call.out.requests = k /\ call.out.parsed_at = k
            /\ (\A k \in passes : attempts[k] = "unparsed")
                   => call.out.requests = MAX_PARSE_RETRIES + 1 /\ call.out.parsed_at = 0

\* two responses without items, then one with items: three requests, the
\* second and the third with the instruction
C34_Witness ==
    /\ call.fn = "chunk_loop"
    /\ call.arg = <<"unparsed", "unparsed", "items">>
    /\ call.out.requests = 3
    /\ call.out.prompts = <<FALSE, TRUE, TRUE>>
    /\ call.out.parsed_at = 3

\* C35: the step2_timeline.json an execution of S2 writes holds only items
\* validated from that execution's LLM responses: a chunk that yields no
\* validated item in this execution has no item in it.
C35_OnlyThisExecution ==
    call.fn = "extract_timeline" =>
        \A i \in 1..Len(call.out) :
            ParsedItems(call.arg.srt_chunks, call.arg.llm, call.out[i].chunk_index) # <<>>

\* C36: when concat returns, on whatever path, its temporary list file no
\* longer exists.
C36_ListFileRemoved ==
    call.fn = "create_collection_video" => ~call.out.list_file

\* C38: a title from the LLM that, trimmed, equals the trimmed
\* generated_title of exactly one clip resolves to the id of that clip.
C38_ExactTitleWins ==
    call.fn = "found_clip" =>
        \A i \in 1..Len(call.arg.clips) :
            (/\ strip(call.arg.clip_title) = strip(call.arg.clips[i].generated_title)
             /\ \A j \in 1..Len(call.arg.clips) :
                    j # i => strip(call.arg.clip_title)
                                # strip(call.arg.clips[j].generated_title))
                => call.out = call.arg.clips[i].id

====
